---------------------------- MODULE Spec2Model ----------------------------
(***************************************************************************)
(* A model of the python-zstandard extension module: the one-shot codec    *)
(* entry points, the BufferWithSegments containers, the BlocksOutputBuffer *)
(* and the streaming writer/reader sessions.  The zstd library itself is   *)
(* an external collaborator; it is modelled as a lossless frame encoder    *)
(* and decoder whose frames are sequences of small integers.               *)
(***************************************************************************)
EXTENDS Integers, Sequences, FiniteSets, TLC

(***************************************************************************)
(* Bounds of the model.                                                    *)
(***************************************************************************)
\* Data bytes are drawn from 0..MaxByte.
MaxByte == 1
\* Longest byte string fed to the codec.
MaxLen == 3
\* Largest compression level the model's native library accepts
\* (ZSTD_maxCLevel()).
MaxCLevel == 2
\* Largest size of the memory behind a BufferWithSegments.
MaxDataSize == 2
\* Largest number of records in a segment table.
MaxSegments == 2
\* Width, in bits, at which the model keeps unsigned 64-bit arithmetic.
U64Bits == 16

\* Largest number of blocks of a BlocksOutputBuffer.
MaxBlocks == 3

\* Largest value a session's byte counter is followed to.
MaxCount == 1
\* Largest number of native stream handles ever created.
MaxHandles == 3

\* Largest number of views made from one BufferWithSegments.
MaxViews == 3

\* First byte of the frame magic number.
ZSTD_MAGIC == 40
\* blocks_output_buffer.h: #define KiB (1024)
KiB == 1024
\* The largest Py_ssize_t (of a build with 32-bit sizes).
PY_SSIZE_T_MAX == 2147483647

Byte == 0..MaxByte
\* Content of a byte of a freshly allocated, not yet written buffer.
UNINIT == MaxByte + 1

RECURSIVE SeqsUpTo(_, _)
SeqsUpTo(S, n) ==
    IF n = 0 THEN {<<>>}
    ELSE LET shorter == SeqsUpTo(S, n - 1)
         IN  shorter \cup {Append(s, x) : s \in {t \in shorter : Len(t) = n - 1}, x \in S}

ByteStrings == SeqsUpTo(Byte, MaxLen)

Min(a, b) == IF a < b THEN a ELSE b

Take(s, n) == SubSeq(s, 1, Min(n, Len(s)))
Drop(s, n) == SubSeq(s, Min(n, Len(s)) + 1, Len(s))

RECURSIVE Fill(_, _)
Fill(x, n) == IF n <= 0 THEN <<>> ELSE <<x>> \o Fill(x, n - 1)

VARIABLES
    \* ---- one-shot codec (ZstdCompressor.compress / ZstdDecompressor.decompress)
    cd_phase,      \* "new" | "ready" | "ctor_failed" | "compressed" | "done"
    cd_level,      \* ZstdCompressor.compressionLevel
    cd_wcs,        \* ZstdCompressor.fparams.contentSizeFlag
    cd_src,        \* the bytes given to compress()
    cd_frame,      \* the bytes compress() returned (or <<>> on failure)
    cd_max,        \* max_output_size given to decompress()
    cd_result      \* what decompress() returned: [ok, bytes]

codecVars == <<cd_phase, cd_level, cd_wcs, cd_src, cd_frame, cd_max, cd_result>>

VARIABLES
    \* ---- BufferWithSegments and the BufferSegment views issued from it
    bs_state,      \* "none" | "built" | "failed"
    bs_dataSize,   \* ZstdBufferWithSegments.dataSize
    bs_segments,   \* ZstdBufferWithSegments.segments: sequence of [offset, length]
    bs_view,       \* the ZstdBufferSegment last returned by item(): [set, data, dataSize, offset]
    bs_read        \* the last tobytes() on the view: [status, first, count]

segVars == <<bs_state, bs_dataSize, bs_segments, bs_view, bs_read>>

VARIABLES
    \* ---- BlocksOutputBuffer and the ZSTD_outBuffer that writes into it
    ob_state,      \* "none" | "active" | "finished" | "failed"
    ob_list,       \* BlocksOutputBuffer.list: sequence of [size, first]; first is
                   \* the index, in the stream of bytes written, of the block's first byte
    ob_allocated,  \* BlocksOutputBuffer.allocated
    ob_max_length, \* BlocksOutputBuffer.max_length
    ob_size,       \* ZSTD_outBuffer.size
    ob_pos,        \* ZSTD_outBuffer.pos
    ob_received,   \* number of bytes the producer has written so far
    ob_result      \* what OutputBuffer_Finish returned: [len, pieces]

bufVars == <<ob_state, ob_list, ob_allocated, ob_max_length, ob_size, ob_pos,
             ob_received, ob_result>>

VARIABLES
    \* ---- one ZstdCompressionWriter, its compressor's cctx and its destination
    cw_life,            \* "none" | "created" | "exited": how far the session's user got
    cw_cfg,             \* [level, wcs]: the compressor; [outSize, sourceSize]: the writer
    cw_entered,         \* ZstdCompressionWriter.entered
    cw_cctx,            \* the state of compressor->cctx
    cw_dest,            \* the bytes the destination's write() was given, in order
    cw_fed,             \* the bytes the write() calls were given, in order
    cw_chunks,          \* how many of these calls were given one byte or more (2: two or more)
    cw_bytesCompressed, \* ZstdCompressionWriter.bytesCompressed
    cw_last             \* the last call and what it returned: [op, ok, value]

writerVars == <<cw_life, cw_cfg, cw_entered, cw_cctx, cw_dest, cw_fed, cw_chunks,
                cw_bytesCompressed, cw_last>>

VARIABLES
    \* ---- the sessions made from one compressor and one decompressor
    ss_sessions,  \* session id -> [kind, entered, closed, finished, cleared, stream, count]
    ss_cctx,      \* compressor->cctx: [stage, users]
    ss_dctx,      \* decompressor->dctx: [users]
    ss_handles,   \* native stream handle -> "unused" | "live" | "freed" | "freed twice"
    ss_crashed,   \* whether the process has crashed
    ss_step       \* the last call: [id, op, result, native, collab]

sessionVars == <<ss_sessions, ss_cctx, ss_dctx, ss_handles, ss_crashed, ss_step>>

VARIABLES
    \* ---- one ZstdCompressionWriter followed call by call through its loops
    wl_life,            \* "none" | "created" | "exited"
    wl_cfg,             \* [level, wcs]: the compressor; [outSize, sourceSize]: the writer
    wl_entered,         \* ZstdCompressionWriter.entered
    wl_cctx,            \* the state of compressor->cctx
    wl_pc,              \* "idle": no method runs; "native": the running method is about
                        \* to call ZSTD_compress_generic; "deliver": the call has returned
    wl_op,              \* the running (or last) method: "none" | "write" | "flush" | "exit"
    wl_input,           \* ZSTD_inBuffer.src[0 .. size) of the running method
    wl_pos,             \* ZSTD_inBuffer.pos
    wl_output,          \* ZSTD_outBuffer.dst[0 .. pos): the staging buffer
    wl_zresult,         \* what the last native call returned
    wl_totalWrite,      \* totalWrite of the running method
    wl_bytesCompressed, \* ZstdCompressionWriter.bytesCompressed
    wl_dest,            \* the bytes the destination's write() was given, in order
    wl_produced,        \* the bytes the native calls have put into staging buffers, in order
    wl_fed,             \* how many bytes the write() calls were given
    wl_exits,           \* how many times __exit__ was called
    wl_exc,             \* whether the last __exit__ was given an exception in flight
    wl_wfail,           \* whether a write() of the destination has raised
    wl_last             \* how the last method ended: [op, ok, value, left]

stepVars == <<wl_life, wl_cfg, wl_entered, wl_cctx, wl_pc, wl_op, wl_input, wl_pos,
              wl_output, wl_zresult, wl_totalWrite, wl_bytesCompressed, wl_dest,
              wl_produced, wl_fed, wl_exits, wl_exc, wl_wfail, wl_last>>

VARIABLES
    \* ---- one ZstdCompressorIterator (zstd.c) and the reader it pulls from
    ci_life,     \* "none" | "made"
    ci_cfg,      \* the compressor: [level, wcs]; read_from's size: [sourceSize]
    ci_reader,   \* the upstream: [data, pos, eof]; eof: a read() has returned nothing
    ci_it,       \* ZstdCompressorIterator: [cstream, input, ipos, finishedOutput];
                 \* output.pos is 0 between the calls
    ci_ended,    \* whether ZSTD_endStream was called on cstream
    ci_yielded,  \* the chunks next() has returned so far, one after the other
    ci_last      \* the last next(): [result, len], result "chunk" | "stop" | "error"

citerVars == <<ci_life, ci_cfg, ci_reader, ci_it, ci_ended, ci_yielded, ci_last>>

VARIABLES
    \* ---- one ZstdDecompressorIterator (zstd.c) and the reader it pulls from
    di_life,     \* "none" | "made"
    di_reader,   \* the upstream: [data, pos, eof]; eof: a read() has returned nothing
    di_it,       \* ZstdDecompressorIterator: [dstream, input, ipos, readCount,
                 \* finishedInput, finishedOutput]
    di_yielded,  \* the chunks next() has returned so far, one after the other
    di_last      \* the last next(): [result, len], result "chunk" | "stop" | "error"

diterVars == <<di_life, di_reader, di_it, di_yielded, di_last>>

VARIABLES
    \* ---- one ZstdDecompressionReader (c-ext/decompressionreader.c) and its source
    rd_life,     \* "none" | "made" | "crashed"
    rd_src,      \* the upstream: [data, pos, eof]; the bytes of the readable or of
                 \* the buffer, how many were pulled, whether a read() returned nothing
    rd_self,     \* ZstdDecompressionReader: [mode, readSize, entered, closed, cleared,
                 \* dctx, input, ipos, finishedInput, finishedOutput, bytesDecompressed]
    rd_out,      \* the bytes read() has returned so far, one call after the other
    rd_raised,   \* whether a read() or a seek() has failed in its loop: on a read
                 \* of the upstream or on a native call
    rd_fed,      \* the bytes the native decoder has consumed, in order
    rd_last      \* the last method: [op, result, size, whence, len, reads, calls];
                 \* size the size or the position it was given; reads
                 \* whether it called read() on the upstream, calls whether it
                 \* made a native call

readerVars == <<rd_life, rd_src, rd_self, rd_out, rd_raised, rd_fed, rd_last>>

VARIABLES
    dc_pc,              \* where ZstdDecompressor.copy_stream is: none, read, native, done
    dc_cfg,             \* its arguments [inSize, outSize]
    dc_src,             \* the bytes the source holds
    dc_rpos,            \* how many of them read() has returned
    dc_dstream,         \* the native decompression stream
    dc_input,           \* input.src .. input.size: the chunk read last
    dc_pos,             \* input.pos
    dc_dest,            \* the bytes the destination's write() was given, in order
    dc_totalRead,       \* totalRead
    dc_totalWrite,      \* totalWrite
    dc_res              \* what the call returned: none, a pair, or an error

copyVars == <<dc_pc, dc_cfg, dc_src, dc_rpos, dc_dstream, dc_input, dc_pos, dc_dest,
              dc_totalRead, dc_totalWrite, dc_res>>

VARIABLES
    zw_life,            \* the ZstdCompressionWriter of zstd.c: none, made
    zw_cfg,             \* [level, wcs, outsize, sourceSize] of the compressor and write_to
    zw_entered,         \* self->entered
    zw_cstream,         \* self->cstream: [null, cctx]
    zw_dest,            \* the bytes the destination's write() was given, in order
    zw_fed,             \* how many bytes write() was called with
    zw_exits,           \* how many times __exit__ was called
    zw_last             \* the last call: [op, ok, none, value, written]

zwVars == <<zw_life, zw_cfg, zw_entered, zw_cstream, zw_dest, zw_fed, zw_exits, zw_last>>

VARIABLES
    lt_made,            \* whether the BufferWithSegments has been constructed
    lt_parentBuf,       \* whether self->parent.buf is set (the data belongs to a Py_buffer)
    lt_user,            \* whether the caller still holds its reference to the collection
    lt_refcnt,          \* ob_refcnt of the collection
    lt_views,           \* view id -> [kind, stage]: the BufferSegment and BufferSegments objects
    lt_releases         \* how many times the backing memory was released

lifeVars == <<lt_made, lt_parentBuf, lt_user, lt_refcnt, lt_views, lt_releases>>

VARIABLES
    td_samples,         \* the samples list train_dictionary was last called with
    td_capacity,        \* its dict_size argument
    td_heap,            \* sampleBuffer, sampleSizes, dict: "none" | "live" | "freed" | "owned"
    td_buffer,          \* the contents of sampleBuffer when the trainer was called
    td_sizes,           \* the contents of sampleSizes when the trainer was called
    td_calls,           \* how many times the call invoked ZDICT_trainFromBuffer_advanced
    td_result           \* what the call returned: [kind, dictSize]

trainVars == <<td_samples, td_capacity, td_heap, td_buffer, td_sizes, td_calls, td_result>>

VARIABLES
    dk_kind,            \* "none" before construction, then "compressor" | "decompressor"
    dk_life,            \* "none" | "live" | "dead": the context object
    dk_dict,            \* whether self->dict is set
    dk_digest,          \* self->cdict / self->ddict: 0 is NULL, otherwise the handle
    dk_made,            \* how many digested dictionaries the native create call has returned
    dk_freed,           \* the handles passed to ZSTD_freeCDict / ZSTD_freeDDict, in order
    dk_calls,           \* how many one-shot calls were made on the context
    dk_last             \* the last one-shot call: [op, fail, used]

dictVars == <<dk_kind, dk_life, dk_dict, dk_digest, dk_made, dk_freed, dk_calls, dk_last>>

VARIABLES
    cr_pc,              \* "none" before stream_reader(), "idle" between calls, "readinput" | "pull" inside read()
    cr_mode,            \* "reader" when self->reader is set, "buffer" when self->buffer is
    cr_src,             \* the bytes of the source
    cr_rpos,            \* how many bytes the upstream reader has handed out
    cr_readSize,        \* self->readSize
    cr_cctx,            \* self->compressor->cctx
    cr_input,           \* self->input: the bytes src[0 .. size)
    cr_pos,             \* self->input.pos
    cr_finishedInput,   \* self->finishedInput
    cr_finishedOutput,  \* self->finishedOutput
    cr_room,            \* self->output.size
    cr_out,             \* self->output: the bytes dst[0 .. pos)
    cr_fed,             \* the bytes the native engine has consumed, in order
    cr_last             \* what the last read() returned: [kind, bytes]

creaderVars == <<cr_pc, cr_mode, cr_src, cr_rpos, cr_readSize, cr_cctx, cr_input, cr_pos,
                 cr_finishedInput, cr_finishedOutput, cr_room, cr_out, cr_fed, cr_last>>

VARIABLES
    dw_pc,              \* the ZstdDecompressionWriter of zstd.c: "none", "idle", "feed" at the head of write()'s loop
    dw_size,            \* sourceSize of the write() under way
    dw_pos,             \* input.pos
    dw_zresult,         \* zresult: [isError, value]
    dw_calls,           \* how many native calls the write() under way has made
    dw_dest,            \* how many bytes the writer's write() was given
    dw_last             \* how the last write() ended: "none" | "None" | "ZstdError"

dwriterVars == <<dw_pc, dw_size, dw_pos, dw_zresult, dw_calls, dw_dest, dw_last>>

VARIABLES
    sb_pc,              \* the ZstdDecompressorIterator of zstd.c, by sizes: "none", "idle",
                        \* "source" at read_from_source, "decode" before the call after it, "crashed"
    sb_capacity,        \* the size input.src was allocated with
    sb_size,            \* input.size: the bytes held in the staging buffer
    sb_pos,             \* input.pos
    sb_readCount,       \* whether readCount is above 0
    sb_finishedInput,   \* finishedInput
    sb_finishedOutput,  \* finishedOutput
    sb_last             \* how the last next() ended: "none" | "chunk" | "stop" | "error"

stageVars == <<sb_pc, sb_capacity, sb_size, sb_pos, sb_readCount, sb_finishedInput,
               sb_finishedOutput, sb_last>>

vars == <<codecVars, segVars, bufVars, writerVars, sessionVars, stepVars, citerVars, diterVars, readerVars, copyVars, zwVars, lifeVars, trainVars, dictVars, creaderVars, dwriterVars, stageVars>>

\* What the actions of one component leave alone.
exceptCodec == <<segVars, bufVars, writerVars, sessionVars, stepVars, citerVars, diterVars, readerVars, copyVars, zwVars, lifeVars, trainVars, dictVars, creaderVars, dwriterVars, stageVars>>
exceptSeg == <<codecVars, bufVars, writerVars, sessionVars, stepVars, citerVars, diterVars, readerVars, copyVars, zwVars, lifeVars, trainVars, dictVars, creaderVars, dwriterVars, stageVars>>
exceptBuf == <<codecVars, segVars, writerVars, sessionVars, stepVars, citerVars, diterVars, readerVars, copyVars, zwVars, lifeVars, trainVars, dictVars, creaderVars, dwriterVars, stageVars>>
exceptWriter == <<codecVars, segVars, bufVars, sessionVars, stepVars, citerVars, diterVars, readerVars, copyVars, zwVars, lifeVars, trainVars, dictVars, creaderVars, dwriterVars, stageVars>>
exceptSession == <<codecVars, segVars, bufVars, writerVars, stepVars, citerVars, diterVars, readerVars, copyVars, zwVars, lifeVars, trainVars, dictVars, creaderVars, dwriterVars, stageVars>>
exceptStep == <<codecVars, segVars, bufVars, writerVars, sessionVars, citerVars, diterVars, readerVars, copyVars, zwVars, lifeVars, trainVars, dictVars, creaderVars, dwriterVars, stageVars>>
exceptCIter == <<codecVars, segVars, bufVars, writerVars, sessionVars, stepVars, diterVars, readerVars, copyVars, zwVars, lifeVars, trainVars, dictVars, creaderVars, dwriterVars, stageVars>>
exceptDIter == <<codecVars, segVars, bufVars, writerVars, sessionVars, stepVars, citerVars, readerVars, copyVars, zwVars, lifeVars, trainVars, dictVars, creaderVars, dwriterVars, stageVars>>
exceptReader == <<codecVars, segVars, bufVars, writerVars, sessionVars, stepVars, citerVars, diterVars, copyVars, zwVars, lifeVars, trainVars, dictVars, creaderVars, dwriterVars, stageVars>>
exceptCopy == <<codecVars, segVars, bufVars, writerVars, sessionVars, stepVars, citerVars, diterVars, readerVars, zwVars, lifeVars, trainVars, dictVars, creaderVars, dwriterVars, stageVars>>
exceptZw == <<codecVars, segVars, bufVars, writerVars, sessionVars, stepVars, citerVars, diterVars, readerVars, copyVars, lifeVars, trainVars, dictVars, creaderVars, dwriterVars, stageVars>>
exceptLife == <<codecVars, segVars, bufVars, writerVars, sessionVars, stepVars, citerVars, diterVars, readerVars, copyVars, zwVars, trainVars, dictVars, creaderVars, dwriterVars, stageVars>>
exceptTrain == <<codecVars, segVars, bufVars, writerVars, sessionVars, stepVars, citerVars, diterVars, readerVars, copyVars, zwVars, lifeVars, dictVars, creaderVars, dwriterVars, stageVars>>
exceptDict == <<codecVars, segVars, bufVars, writerVars, sessionVars, stepVars, citerVars, diterVars, readerVars, copyVars, zwVars, lifeVars, trainVars, creaderVars, dwriterVars, stageVars>>
exceptCReader == <<codecVars, segVars, bufVars, writerVars, sessionVars, stepVars, citerVars, diterVars, readerVars, copyVars, zwVars, lifeVars, trainVars, dictVars, dwriterVars, stageVars>>
exceptDWriter == <<codecVars, segVars, bufVars, writerVars, sessionVars, stepVars, citerVars, diterVars, readerVars, copyVars, zwVars, lifeVars, trainVars, dictVars, creaderVars, stageVars>>
exceptStage == <<codecVars, segVars, bufVars, writerVars, sessionVars, stepVars, citerVars, diterVars, readerVars, copyVars, zwVars, lifeVars, trainVars, dictVars, creaderVars, dwriterVars>>

(***************************************************************************)
(* The native library's frame format.  A frame is                          *)
(*   <<magic, fcsFlag>> \o (the content size, when fcsFlag = 1) \o blocks  *)
(* and a block is <<lastFlag, n>> followed by n raw bytes.  The block      *)
(* capacity stands for the compression parameters a level selects: the     *)
(* encoded bytes depend on the level, the decoder does not.                *)
(***************************************************************************)
ZSTD_getCParams(level) == level

RECURSIVE EncodeBlocks(_, _)
EncodeBlocks(b, cap) ==
    IF Len(b) <= cap THEN <<1, Len(b)>> \o b
    ELSE <<0, cap>> \o Take(b, cap) \o EncodeBlocks(Drop(b, cap), cap)

EncodeFrame(b, contentSizeFlag, cap) ==
    <<ZSTD_MAGIC, IF contentSizeFlag THEN 1 ELSE 0>>
        \o (IF contentSizeFlag THEN <<Len(b)>> ELSE <<>>)
        \o EncodeBlocks(b, cap)

\* Position of the first block of frame f, or 0 when the header is malformed.
HeaderEnd(f) ==
    IF Len(f) < 2 \/ f[1] # ZSTD_MAGIC THEN 0
    ELSE IF f[2] = 0 THEN 3
    ELSE IF f[2] = 1 /\ Len(f) >= 3 THEN 4
    ELSE 0

RECURSIVE DecodeBlocks(_, _)
\* [ok, bytes]: the content of the blocks of f from position i on.
DecodeBlocks(f, i) ==
    IF i + 1 > Len(f) THEN [ok |-> FALSE, bytes |-> <<>>]
    ELSE LET last == f[i]
             n    == f[i + 1]
         IN  IF last \notin {0, 1} \/ n < 0 \/ i + 1 + n > Len(f)
             THEN [ok |-> FALSE, bytes |-> <<>>]
             ELSE IF last = 1
             THEN [ok |-> (i + 1 + n = Len(f)), bytes |-> SubSeq(f, i + 2, i + 1 + n)]
             ELSE LET rest == DecodeBlocks(f, i + 2 + n)
                  IN  [ok |-> rest.ok, bytes |-> SubSeq(f, i + 2, i + 1 + n) \o rest.bytes]

\* [ok, bytes]: the content of frame f.
DecodeFrame(f) ==
    IF HeaderEnd(f) = 0 THEN [ok |-> FALSE, bytes |-> <<>>]
    ELSE LET d == DecodeBlocks(f, HeaderEnd(f))
         IN  IF d.ok /\ f[2] = 1 /\ f[3] # Len(d.bytes)
             THEN [ok |-> FALSE, bytes |-> <<>>]
             ELSE d

\* ZSTD_compressBound: an upper bound of the frame size for n source bytes.
ZSTD_compressBound(n) == 3 * n + 5

\* ZSTD_compress_advanced: [isError, size, bytes].
ZSTD_compress_advanced(destSize, source, cap, contentSizeFlag) ==
    LET f == EncodeFrame(source, contentSizeFlag, cap)
    IN  IF Len(f) > destSize
        THEN [isError |-> TRUE, size |-> 0, bytes |-> <<>>]
        ELSE [isError |-> FALSE, size |-> Len(f), bytes |-> f]

\* ZSTD_getDecompressedSize: the declared content size, and 0 when the header
\* declares none (or is malformed).
ZSTD_getDecompressedSize(f) ==
    IF HeaderEnd(f) = 4 THEN f[3] ELSE 0

\* ZSTD_decompress into a buffer of destCapacity bytes: [isError, size, bytes].
ZSTD_decompress(destCapacity, f) ==
    LET d == DecodeFrame(f)
    IN  IF ~d.ok \/ Len(d.bytes) > destCapacity
        THEN [isError |-> TRUE, size |-> 0, bytes |-> <<>>]
        ELSE [isError |-> FALSE, size |-> Len(d.bytes), bytes |-> d.bytes]

(***************************************************************************)
(* ZstdCompressor.compress(data).                                          *)
(***************************************************************************)
Failure == [ok |-> FALSE, bytes |-> <<>>]

ZstdCompressor_compress(level, contentSizeFlag, source) ==
    LET destSize == ZSTD_compressBound(Len(source))
        z == ZSTD_compress_advanced(destSize, source, ZSTD_getCParams(level),
                                    contentSizeFlag)
        \* the output object: destSize bytes, the first z.size of them written
        output == z.bytes \o Fill(UNINIT, destSize - z.size)
    IN  IF z.isError THEN Failure
        ELSE [ok |-> TRUE, bytes |-> Take(output, z.size)]

(***************************************************************************)
(* ZstdDecompressor.decompress(data, max_output_size).                     *)
(***************************************************************************)
\* DecompressResult without the final resize: the whole buffer is returned.
DecompressResult_NoResize(z, destCapacity) ==
    z.bytes \o Fill(UNINIT, destCapacity - z.size)

\* The result object when the native call succeeded: the buffer is cut to the
\* bytes produced when fewer than its capacity were produced.
DecompressResult(z, destCapacity) ==
    LET buffer == z.bytes \o Fill(UNINIT, destCapacity - z.size)
    IN  IF z.size < destCapacity THEN Take(buffer, z.size) ELSE buffer

ZstdDecompressor_decompress(source, maxOutputSize) ==
    LET decompressedSize == ZSTD_getDecompressedSize(source)
    IN  IF decompressedSize = 0 /\ maxOutputSize = 0 THEN Failure
        ELSE LET destCapacity == IF decompressedSize = 0 THEN maxOutputSize
                                 ELSE decompressedSize
             IN  IF destCapacity < 0 THEN Failure   \* the bytes object is not created
                 ELSE LET z == ZSTD_decompress(destCapacity, source)
                      IN  IF z.isError THEN Failure
                          ELSE IF decompressedSize # 0 /\ z.size # decompressedSize
                          THEN Failure
                          ELSE [ok |-> TRUE, bytes |-> DecompressResult(z, destCapacity)]

(***************************************************************************)
(* The one-shot codec as a state machine.                                  *)
(***************************************************************************)
CodecInit ==
    /\ cd_phase = "new"
    /\ cd_level = 0
    /\ cd_wcs = FALSE
    /\ cd_src = <<>>
    /\ cd_frame = <<>>
    /\ cd_max = 0
    /\ cd_result = Failure

\* ZstdCompressor(level, write_content_size)
ZstdCompressor_init(level, writeContentSize) ==
    /\ cd_phase = "new"
    /\ IF level < 1 \/ level > MaxCLevel
       THEN /\ cd_phase' = "ctor_failed"
            /\ UNCHANGED <<cd_level, cd_wcs>>
       ELSE /\ cd_phase' = "ready"
            /\ cd_level' = level
            /\ cd_wcs' = writeContentSize
    /\ UNCHANGED <<cd_src, cd_frame, cd_max, cd_result>>

Compress(b) ==
    /\ cd_phase = "ready"
    /\ LET r == ZstdCompressor_compress(cd_level, cd_wcs, b)
       IN  /\ cd_src' = b
           /\ cd_frame' = r.bytes
           /\ cd_phase' = IF r.ok THEN "compressed" ELSE "compress_failed"
    /\ UNCHANGED <<cd_level, cd_wcs, cd_max, cd_result>>

Decompress(maxOutputSize) ==
    /\ cd_phase = "compressed"
    /\ cd_max' = maxOutputSize
    /\ cd_result' = ZstdDecompressor_decompress(cd_frame, maxOutputSize)
    /\ cd_phase' = "done"
    /\ UNCHANGED <<cd_level, cd_wcs, cd_src, cd_frame>>

CodecNext ==
    \/ \E level \in 0..(MaxCLevel + 1), wcs \in BOOLEAN :
            ZstdCompressor_init(level, wcs) /\ UNCHANGED exceptCodec
    \/ \E b \in ByteStrings : Compress(b) /\ UNCHANGED exceptCodec
    \/ \E m \in (0 - 1)..(MaxLen + 1) : Decompress(m) /\ UNCHANGED exceptCodec

C18_FailsExactlyWhenSizeUnknown ==
    cd_phase = "done" =>
        /\ ~cd_result.ok => cd_result.bytes = <<>>
        /\ (~cd_wcs /\ cd_max = 0) => ~cd_result.ok
        /\ (cd_wcs /\ cd_max = 0) => cd_result.ok

\* C19: compress(b"") followed by decompress(result) without max_output_size
\* returns b"" and raises no error.
C19_EmptyRoundTrip ==
    (cd_phase = "done" /\ cd_src = <<>> /\ cd_max = 0)
        => (cd_result.ok /\ cd_result.bytes = <<>>)

(***************************************************************************)
(* BufferWithSegments (c-ext/bufferutil.c).  A BufferSegment record is a   *)
(* pair of unsigned 64-bit integers; the model keeps the wrap-around of    *)
(* unsigned arithmetic at a width of U64Bits bits.  Addresses are relative *)
(* to the start of the backing memory, whose bytes are [0, dataSize).      *)
(***************************************************************************)
U64Mod == 2 ^ U64Bits

\* unsigned long long addition
U64Add(a, b) == (a + b) % U64Mod

\* Conversion of an unsigned 64-bit value to Py_ssize_t, and the address that
\* pointer arithmetic base + offset yields.
ToSigned(x) == IF x >= U64Mod \div 2 THEN x - U64Mod ELSE x

\* The values a field of a segment record takes in the model: small ones, the
\* sign boundary, and the largest ones.
SegFieldValues ==
    (0..(MaxDataSize + 1)) \cup {U64Mod \div 2, U64Mod - 2, U64Mod - 1}

SegRecords == [offset : SegFieldValues, length : SegFieldValues]

\* The segment tables of at most n records.
SegTables(n) == SeqsUpTo(SegRecords, n)

\* if (segment->offset + segment->length > dataSize)
SegmentOutside(segment, dataSize) ==
    U64Add(segment.offset, segment.length) > dataSize

NoView == [set |-> FALSE, data |-> 0, dataSize |-> 0, offset |-> 0]
NoRead == [status |-> "none", first |-> 0, count |-> 0]

SegInit ==
    /\ bs_state = "none"
    /\ bs_dataSize = 0
    /\ bs_segments = <<>>
    /\ bs_view = NoView
    /\ bs_read = NoRead

\* BufferWithSegments(data, segments): tail is segments.len % sizeof(BufferSegment)
BufferWithSegments_init(dataLen, table, tail) ==
    /\ bs_state = "none"
    /\ IF tail # 0
       THEN /\ bs_state' = "failed"
            /\ UNCHANGED <<bs_dataSize, bs_segments>>
       ELSE IF \E i \in 1..Len(table) : SegmentOutside(table[i], dataLen)
       THEN /\ bs_state' = "failed"
            /\ UNCHANGED <<bs_dataSize, bs_segments>>
       ELSE /\ bs_state' = "built"
            /\ bs_dataSize' = dataLen
            /\ bs_segments' = table
    /\ UNCHANGED <<bs_view, bs_read>>

\* BufferWithSegments_FromMemory(data, dataSize, segments, segmentsSize), with
\* data and segments not NULL
BufferWithSegments_FromMemory(dataSize, segments) ==
    /\ bs_state = "none"
    /\ IF \E i \in 1..Len(segments) : SegmentOutside(segments[i], dataSize)
       THEN /\ bs_state' = "failed"
            /\ UNCHANGED <<bs_dataSize, bs_segments>>
       ELSE /\ bs_state' = "built"
            /\ bs_dataSize' = dataSize
            /\ bs_segments' = segments
    /\ UNCHANGED <<bs_view, bs_read>>

\* BufferWithSegments_item(self, i); the model's sequences start at 1
BufferWithSegments_item(i) ==
    /\ bs_state = "built"
    /\ IF i < 0 \/ i >= Len(bs_segments)
       THEN bs_view' = NoView          \* IndexError
       ELSE bs_view' = [set      |-> TRUE,
                        data     |-> ToSigned(bs_segments[i + 1].offset),
                        dataSize |-> ToSigned(bs_segments[i + 1].length),
                        offset   |-> bs_segments[i + 1].offset]
    /\ bs_read' = NoRead
    /\ UNCHANGED <<bs_state, bs_dataSize, bs_segments>>

\* BufferSegment_tobytes(self): PyBytes_FromStringAndSize(self->data, self->dataSize)
\* refuses a negative size and otherwise copies dataSize bytes from data on.
BufferSegment_tobytes ==
    /\ bs_view.set
    /\ bs_read' = IF bs_view.dataSize < 0
                  THEN [status |-> "error", first |-> 0, count |-> 0]
                  ELSE [status |-> "ok", first |-> bs_view.data,
                        count |-> bs_view.dataSize]
    /\ UNCHANGED <<bs_state, bs_dataSize, bs_segments, bs_view>>

SegNext ==
    \/ \E n \in 0..MaxDataSize, t \in SegTables(MaxSegments) :
            BufferWithSegments_init(n, t, 0) /\ UNCHANGED exceptSeg
    \/ \E n \in 0..MaxDataSize :
            BufferWithSegments_init(n, <<>>, 1) /\ UNCHANGED exceptSeg
    \/ \E n \in 0..MaxDataSize, t \in SegTables(MaxSegments) :
            BufferWithSegments_FromMemory(n, t) /\ UNCHANGED exceptSeg
    \/ \E i \in (0 - 1)..MaxSegments :
            BufferWithSegments_item(i) /\ UNCHANGED exceptSeg
    \/ BufferSegment_tobytes /\ UNCHANGED exceptSeg

\* The addresses the last tobytes() read.
AddressesRead == {bs_read.first + k : k \in 0..(bs_read.count - 1)}

\* C2 as stated: no collection is ever produced that holds a segment whose
\* offset + length, summed over the integers, exceeds dataSize.
C2_NoSegmentOutside ==
    bs_state = "built" =>
        \A i \in 1..Len(bs_segments) :
            bs_segments[i].offset + bs_segments[i].length <= bs_dataSize

\* C3 as stated: every view item(i) returns lies inside the parent buffer
\* (its start and its start plus its length are at most dataSize), so that
\* reading it with tobytes() touches no address outside [0, dataSize).
C3_ViewInsideParent ==
    bs_read.status = "ok" =>
        /\ bs_view.offset <= bs_dataSize
        /\ bs_view.offset + bs_view.dataSize <= bs_dataSize
        /\ AddressesRead \subseteq 0..(bs_dataSize - 1)

\* The bytes of a view, each named by its place in the parent's data, and
\* the bytes of data[offset : offset + length].
ViewBytes(view) ==
    [k \in 1..(IF view.dataSize > 0 THEN view.dataSize ELSE 0) |-> view.data + k - 1]
SliceBytes(offset, length, dataSize) ==
    [k \in 1..(Min(offset + length, dataSize) - Min(offset, dataSize)) |->
        offset + k - 1]

\* C26: item(i) with 0 <= i < count returns a view whose bytes are
\* data[offset_i : offset_i + length_i] and whose offset is offset_i; item(i)
\* with i < 0 or i >= count raises IndexError and makes no view.
C26_ItemReturnsSegmentView ==
    [][\A i \in (0 - 1)..MaxSegments :
          BufferWithSegments_item(i)
          => IF 0 <= i /\ i < Len(bs_segments)
             THEN /\ bs_view'.set
                  /\ bs_view'.offset = bs_segments[i + 1].offset
                  /\ ViewBytes(bs_view') =
                        SliceBytes(bs_segments[i + 1].offset,
                                   bs_segments[i + 1].length, bs_dataSize)
             ELSE ~bs_view'.set]_vars

(***************************************************************************)
(* BlocksOutputBuffer (c-ext/blocks_output_buffer.h).  The bytes written   *)
(* are the bytes 0, 1, 2, ... of one output stream; a block records which  *)
(* byte of the stream its first byte is, and a finished buffer is a        *)
(* sequence of pieces [first, count] of the stream in the order they were  *)
(* copied.                                                                 *)
(***************************************************************************)
MiB == 1024 * 1024

BUFFER_BLOCK_SIZE ==
    << 32*KiB, 64*KiB, 256*KiB, 1*MiB, 4*MiB, 8*MiB, 16*MiB, 16*MiB,
       32*MiB, 32*MiB, 32*MiB, 32*MiB, 64*MiB, 64*MiB, 128*MiB, 128*MiB,
       256*MiB >>

\* max_length arguments the model tries: unlimited, zero, and values around
\* the sizes the first blocks add up to.
MaxLengths ==
    {0 - 1, 0, 1,
     BUFFER_BLOCK_SIZE[1] - 1, BUFFER_BLOCK_SIZE[1], BUFFER_BLOCK_SIZE[1] + 1,
     BUFFER_BLOCK_SIZE[1] + BUFFER_BLOCK_SIZE[2],
     BUFFER_BLOCK_SIZE[1] + BUFFER_BLOCK_SIZE[2] + 1}

\* init_size arguments the model tries.
InitSizes == {0, 1, BUFFER_BLOCK_SIZE[1] + 1}

\* OutputBuffer_InitAndGrow: the size of the first block
InitBlockSize(max_length) ==
    IF 0 <= max_length /\ max_length < BUFFER_BLOCK_SIZE[1]
    THEN max_length
    ELSE BUFFER_BLOCK_SIZE[1]

\* The schedule taken for its first entry at every length of the list.
ScheduledBlockSize_First(list_len) == BUFFER_BLOCK_SIZE[1]

\* The block size of the schedule for a list of list_len blocks
ScheduledBlockSize(list_len) ==
    IF list_len < Len(BUFFER_BLOCK_SIZE)
    THEN BUFFER_BLOCK_SIZE[list_len + 1]
    ELSE BUFFER_BLOCK_SIZE[Len(BUFFER_BLOCK_SIZE)]

\* GrowBlockSize without the clipping to the remaining budget.
GrowBlockSize_NoClip(list_len, max_length, allocated) ==
    ScheduledBlockSize(list_len)

\* OutputBuffer_Grow: the size of the block to add (max_length # 0)
GrowBlockSize(list_len, max_length, allocated) ==
    LET block_size == ScheduledBlockSize(list_len)
    IN  IF max_length >= 0 /\ block_size > max_length - allocated
        THEN max_length - allocated
        ELSE block_size

NoResult == [len |-> 0, pieces |-> <<>>]

BufInit ==
    /\ ob_state = "none"
    /\ ob_list = <<>>
    /\ ob_allocated = 0
    /\ ob_max_length = 0
    /\ ob_size = 0
    /\ ob_pos = 0
    /\ ob_received = 0
    /\ ob_result = NoResult

\* OutputBuffer_InitAndGrow(buffer, ob, max_length); allocated tells whether
\* the first block could be allocated
OutputBuffer_InitAndGrow(max_length, allocated) ==
    /\ ob_state = "none"
    /\ ob_max_length' = max_length
    /\ IF ~allocated
       THEN /\ ob_state' = "failed"
            /\ UNCHANGED <<ob_list, ob_allocated, ob_size, ob_pos>>
       ELSE LET block_size == InitBlockSize(max_length)
            IN  /\ ob_state' = "active"
                /\ ob_list' = <<[size |-> block_size, first |-> ob_received]>>
                /\ ob_allocated' = block_size
                /\ ob_size' = block_size
                /\ ob_pos' = 0
    /\ UNCHANGED <<ob_received, ob_result>>

\* OutputBuffer_InitWithSize(buffer, ob, init_size)
OutputBuffer_InitWithSize(init_size, allocated) ==
    /\ ob_state = "none"
    /\ IF ~allocated
       THEN /\ ob_state' = "failed"
            /\ UNCHANGED <<ob_list, ob_allocated, ob_max_length, ob_size, ob_pos>>
       ELSE /\ ob_state' = "active"
            /\ ob_list' = <<[size |-> init_size, first |-> ob_received]>>
            /\ ob_allocated' = init_size
            /\ ob_max_length' = 0 - 1
            /\ ob_size' = init_size
            /\ ob_pos' = 0
    /\ UNCHANGED <<ob_received, ob_result>>

\* The native engine writes n bytes at ob->dst + ob->pos.
ProducerWrite(n) ==
    /\ ob_state = "active"
    /\ n >= 1
    /\ n <= ob_size - ob_pos
    /\ ob_pos' = ob_pos + n
    /\ ob_received' = ob_received + n
    /\ UNCHANGED <<ob_state, ob_list, ob_allocated, ob_max_length, ob_size, ob_result>>

\* OutputBuffer_Grow(buffer, ob), called with ob->pos == ob->size; allocated
\* tells whether the new block could be allocated
OutputBuffer_Grow(allocated) ==
    /\ ob_state = "active"
    /\ ob_pos = ob_size
    /\ Len(ob_list) < MaxBlocks
    /\ IF ob_max_length = 0
       THEN UNCHANGED <<ob_state, ob_list, ob_allocated, ob_size, ob_pos>>
       ELSE LET block_size == GrowBlockSize(Len(ob_list), ob_max_length, ob_allocated)
            IN  IF block_size > PY_SSIZE_T_MAX - ob_allocated \/ ~allocated
                THEN /\ ob_state' = "failed"       \* the caller runs OutputBuffer_OnError
                     /\ UNCHANGED <<ob_list, ob_allocated, ob_size, ob_pos>>
                ELSE /\ ob_list' = Append(ob_list, [size |-> block_size,
                                                     first |-> ob_received])
                     /\ ob_allocated' = ob_allocated + block_size
                     /\ ob_size' = block_size
                     /\ ob_pos' = 0
                     /\ UNCHANGED ob_state
    /\ UNCHANGED <<ob_max_length, ob_received, ob_result>>

\* OutputBuffer_Finish, the copy of every block: the blocks but the last one
\* whole, then the used part of the last one.
FinishCopy(list, allocated, size, pos) ==
    [len    |-> allocated - (size - pos),
     pieces |-> [i \in 1..Len(list) |->
                    [first |-> list[i].first,
                     count |-> IF i < Len(list) THEN list[i].size ELSE pos]]]

\* OutputBuffer_Finish taking the fast path for any single block, full or not.
FinishResult_FastPathAnyPos(list, allocated, size, pos) ==
    IF Len(list) = 1 \/ (Len(list) = 2 /\ pos = 0)
    THEN [len |-> list[1].size,
          pieces |-> <<[first |-> list[1].first, count |-> list[1].size]>>]
    ELSE FinishCopy(list, allocated, size, pos)

\* OutputBuffer_Finish(buffer, ob): the bytes object returned
FinishResult(list, allocated, size, pos) ==
    IF (Len(list) = 1 /\ pos = size) \/ (Len(list) = 2 /\ pos = 0)
    THEN [len |-> list[1].size,
          pieces |-> <<[first |-> list[1].first, count |-> list[1].size]>>]
    ELSE FinishCopy(list, allocated, size, pos)

OutputBuffer_Finish ==
    /\ ob_state = "active"
    /\ ob_result' = FinishResult(ob_list, ob_allocated, ob_size, ob_pos)
    /\ ob_state' = "finished"
    /\ UNCHANGED <<ob_list, ob_allocated, ob_max_length, ob_size, ob_pos, ob_received>>

\* The amounts a producer writes into a block with room left: one byte or all
\* but one byte into an empty block, or what fills the block.
WriteAmounts ==
    {ob_size - ob_pos} \cup (IF ob_pos = 0 THEN {1, ob_size - 1} ELSE {})

BufNext ==
    \/ \E m \in MaxLengths, a \in BOOLEAN :
            OutputBuffer_InitAndGrow(m, a) /\ UNCHANGED exceptBuf
    \/ \E n \in InitSizes, a \in BOOLEAN :
            OutputBuffer_InitWithSize(n, a) /\ UNCHANGED exceptBuf
    \/ \E n \in WriteAmounts : ProducerWrite(n) /\ UNCHANGED exceptBuf
    \/ \E a \in BOOLEAN : OutputBuffer_Grow(a) /\ UNCHANGED exceptBuf
    \/ OutputBuffer_Finish /\ UNCHANGED exceptBuf

RECURSIVE SumSizes(_, _)
\* The sum of the sizes of the first n blocks of list.
SumSizes(list, n) == IF n = 0 THEN 0 ELSE SumSizes(list, n - 1) + list[n].size

\* C4: with max_length = M >= 0 the allocated total never exceeds M, and no
\* block is larger than M minus what was allocated before it.
C4_AllocatedWithinMax ==
    (ob_state \in {"active", "finished"} /\ ob_max_length >= 0) =>
        /\ ob_allocated = SumSizes(ob_list, Len(ob_list))
        /\ ob_allocated <= ob_max_length
        /\ \A i \in 1..Len(ob_list) :
              ob_list[i].size <= ob_max_length - SumSizes(ob_list, i - 1)

\* A buffer with a ceiling whose second block was cut to the remaining budget.
C4_Witness ==
    /\ ob_state = "active"
    /\ ob_max_length = BUFFER_BLOCK_SIZE[1] + 1
    /\ Len(ob_list) = 2
    /\ ob_list[2].size = 1
    /\ ob_allocated = ob_max_length

RECURSIVE PiecesFrom(_, _, _)
\* Whether the pieces i.. of a result lie one after the other in the stream,
\* starting at byte next of it; the result is the number of the byte after the
\* last one, or -1 when some piece is out of place.  An empty piece holds no byte.
PiecesFrom(pieces, i, next) ==
    IF i > Len(pieces) THEN next
    ELSE IF pieces[i].count = 0 THEN PiecesFrom(pieces, i + 1, next)
    ELSE IF pieces[i].first # next THEN 0 - 1
    ELSE PiecesFrom(pieces, i + 1, next + pieces[i].count)

\* C5: Finish on a buffer that received N bytes returns exactly N bytes, the
\* bytes 0..N-1 of the stream in order; N = allocated - (size - pos); and
\* where the fast path is taken the copy of every block gives the same bytes.
C5_FinishReturnsReceived ==
    ob_state = "finished" =>
        /\ ob_result.len = ob_received
        /\ ob_received = ob_allocated - (ob_size - ob_pos)
        /\ PiecesFrom(ob_result.pieces, 1, 0) = ob_received
        /\ LET copy == FinishCopy(ob_list, ob_allocated, ob_size, ob_pos)
           IN  /\ copy.len = ob_result.len
               /\ PiecesFrom(copy.pieces, 1, 0) = PiecesFrom(ob_result.pieces, 1, 0)

\* A finished buffer of three blocks, the last one partly used.
C5_Witness ==
    /\ ob_state = "finished"
    /\ Len(ob_list) = 3
    /\ 0 < ob_pos /\ ob_pos < ob_size
    /\ Len(ob_result.pieces) = 3

\* A finished buffer that took the fast path with an unused second block.
C5_WitnessFastPath ==
    /\ ob_state = "finished"
    /\ Len(ob_list) = 2
    /\ ob_pos = 0 /\ ob_size > 0
    /\ Len(ob_result.pieces) = 1

\* C30: OutputBuffer_Grow fails with a MemoryError and adds no block when
\* the block it would add, cut to max_length - allocated, has no bytes (the
\* buffer has reached its max_length), and when the block would take the
\* allocated total over PY_SSIZE_T_MAX.
C30_GrowFailsAtLimit ==
    [][\A a \in BOOLEAN :
          (/\ OutputBuffer_Grow(a)
           /\ \/ /\ ob_max_length > 0
                 /\ GrowBlockSize(Len(ob_list), ob_max_length, ob_allocated) = 0
              \/ GrowBlockSize(Len(ob_list), ob_max_length, ob_allocated)
                    > PY_SSIZE_T_MAX - ob_allocated)
          => (ob_state' = "failed" /\ ob_list' = ob_list)]_vars

\* The schedule of block sizes as the specification lists it, and the size it
\* gives a block added to k blocks under a max_length with allocated bytes
\* given out.
ListedSchedule ==
    << 32*KiB, 64*KiB, 256*KiB, 1*MiB, 4*MiB, 8*MiB, 16*MiB, 16*MiB >>
    \o << 32*MiB, 32*MiB, 32*MiB, 32*MiB >> \o << 64*MiB, 64*MiB >>
    \o << 128*MiB, 128*MiB >> \o << 256*MiB >>

ListedBlockSize(k, max_length, allocated) ==
    LET scheduled == ListedSchedule[Min(k, 16) + 1]
    IN  IF max_length >= 0 THEN Min(scheduled, max_length - allocated)
        ELSE scheduled

\* What C31 says of a step: the first block has the listed size, a grow that
\* does not fail and for which gives(max_length) holds appends a block of the
\* listed size, and after it the allocated total is the sum of the sizes.
GrowsAsListed(appends) ==
    /\ \A m \in MaxLengths :
          OutputBuffer_InitAndGrow(m, TRUE)
          => ob_list' = <<[size |-> ListedBlockSize(0, m, 0), first |-> ob_received]>>
    /\ \A a \in BOOLEAN :
          (OutputBuffer_Grow(a) /\ ob_state' = "active")
          => /\ ob_allocated' = SumSizes(ob_list', Len(ob_list'))
             /\ IF appends
                THEN /\ Len(ob_list') = Len(ob_list) + 1
                     /\ ob_list'[Len(ob_list')].size =
                           ListedBlockSize(Len(ob_list), ob_max_length, ob_allocated)
                ELSE ob_list' = ob_list

NewCCtx(level, contentSizeFlag) ==
    [stage |-> "fresh", cap |-> ZSTD_getCParams(level), flag |-> contentSizeFlag,
     pledged |-> 0, consumed |-> 0, header |-> <<>>, buf |-> <<>>, pending |-> <<>>]

\* ZSTD_CCtx_setPledgedSrcSize: [isError, cctx]; refused inside a frame
ZSTD_CCtx_setPledgedSrcSize(cctx, pledgedSrcSize) ==
    IF cctx.stage \in {"open", "error"}
    THEN [isError |-> TRUE, cctx |-> cctx]
    ELSE [isError |-> FALSE,
          cctx |-> [cctx EXCEPT !.stage = "fresh", !.pledged = pledgedSrcSize,
                                !.consumed = 0, !.header = <<>>, !.buf = <<>>,
                                !.pending = <<>>]]

\* The frame header a cctx writes: the content size is declared when the
\* flag is set and a size was pledged (0 means the size is not known).
StreamHeader(cctx) ==
    IF cctx.flag /\ cctx.pledged > 0
    THEN <<ZSTD_MAGIC, 1, cctx.pledged>>
    ELSE <<ZSTD_MAGIC, 0>>

\* The cctx after it has made a block of the input it had collected: the
\* block, behind the header if this is the frame's first block, is pending.
EmitBlock(cctx, lastFlag) ==
    [cctx EXCEPT !.pending = cctx.header \o <<lastFlag, Len(cctx.buf)>> \o cctx.buf,
                 !.header = <<>>, !.buf = <<>>]

RECURSIVE CompressRun(_, _, _, _, _, _)
\* One call on a cctx already inside a frame: out is what the call has put
\* into the output buffer of size room so far, pos the input position.
CompressRun(cctx, input, pos, out, room, directive) ==
    LET k  == Min(room - Len(out), Len(cctx.pending))
        c1 == [cctx EXCEPT !.pending = Drop(cctx.pending, k)]
        o1 == out \o Take(cctx.pending, k)
        stop(c) == [cctx |-> c, pos |-> pos, out |-> o1, isError |-> FALSE,
                    zresult |-> IF directive = "continue"
                                THEN c.cap - Len(c.buf)
                                ELSE Len(c.pending)]
    IN  IF c1.pending # <<>> \/ c1.stage = "done" THEN stop(c1)
        ELSE IF pos < Len(input)
        THEN LET n   == Min(Len(input) - pos, c1.cap - Len(c1.buf))
                 buf == c1.buf \o SubSeq(input, pos + 1, pos + n)
                 c2  == [c1 EXCEPT !.consumed = c1.consumed + n, !.buf = buf]
             IN  IF c1.pledged > 0 /\ c2.consumed > c1.pledged
                 THEN [cctx |-> [c1 EXCEPT !.stage = "error"], pos |-> pos,
                       out |-> o1, isError |-> TRUE, zresult |-> 0]
                 ELSE IF Len(buf) = c1.cap
                 THEN CompressRun(EmitBlock(c2, 0), input, pos + n, o1, room,
                                  directive)
                 ELSE CompressRun(c2, input, pos + n, o1, room, directive)
        ELSE IF directive = "continue" THEN stop(c1)
        ELSE IF directive = "flush"
        THEN IF c1.buf = <<>> THEN stop(c1)
             ELSE CompressRun(EmitBlock(c1, 0), input, pos, o1, room, directive)
        ELSE IF c1.pledged > 0 /\ c1.consumed # c1.pledged
        THEN [cctx |-> [c1 EXCEPT !.stage = "error"], pos |-> pos,
              out |-> o1, isError |-> TRUE, zresult |-> 0]
        ELSE CompressRun([EmitBlock(c1, 1) EXCEPT !.stage = "done"],
                         input, pos, o1, room, directive)

\* ZSTD_compress_generic(cctx, &output, &input, directive) with output.pos = 0,
\* output.size = room and input.pos = pos: [cctx, pos, out, isError, zresult]
ZSTD_compress_generic(cctx, input, pos, room, directive) ==
    IF cctx.stage = "error"
    THEN [cctx |-> cctx, pos |-> pos, out |-> <<>>, isError |-> TRUE, zresult |-> 0]
    ELSE IF cctx.stage = "fresh"
    THEN CompressRun([cctx EXCEPT !.stage = "open", !.header = StreamHeader(cctx)],
                     input, pos, <<>>, room, directive)
    ELSE IF cctx.stage = "done" /\ cctx.pending = <<>>
    THEN \* the finished frame reset the session: the next frame pledges nothing
         LET c == [cctx EXCEPT !.pledged = 0, !.consumed = 0]
         IN  CompressRun([c EXCEPT !.stage = "open", !.header = StreamHeader(c)],
                         input, pos, <<>>, room, directive)
    ELSE CompressRun(cctx, input, pos, <<>>, room, directive)

(***************************************************************************)
(* ZstdCompressionWriter (c-ext/compressionwriter.c), with the bytes.      *)
(***************************************************************************)
WriterInit ==
    /\ cw_life = "none"
    /\ cw_cfg = [level |-> 1, wcs |-> FALSE, outSize |-> 1, sourceSize |-> 0]
    /\ cw_entered = FALSE
    /\ cw_cctx = NewCCtx(1, FALSE)
    /\ cw_dest = <<>>
    /\ cw_fed = <<>>
    /\ cw_chunks = 0
    /\ cw_bytesCompressed = 0
    /\ cw_last = [op |-> "none", ok |-> TRUE, value |-> 0]

\* ZstdCompressor(level, write_content_size).write_to(writer, size) with a
\* staging buffer of outSize bytes
ZstdCompressor_write_to(level, wcs, outSize, sourceSize) ==
    /\ cw_life = "none"
    /\ cw_life' = "created"
    /\ cw_cfg' = [level |-> level, wcs |-> wcs, outSize |-> outSize,
                  sourceSize |-> sourceSize]
    /\ cw_cctx' = NewCCtx(level, wcs)
    /\ cw_entered' = FALSE
    /\ cw_bytesCompressed' = 0
    /\ cw_last' = [op |-> "write_to", ok |-> TRUE, value |-> 0]
    /\ UNCHANGED <<cw_dest, cw_fed, cw_chunks>>

ZstdCompressionWriter_enter ==
    /\ cw_life # "none"
    /\ IF cw_entered
       THEN /\ cw_last' = [op |-> "enter", ok |-> FALSE, value |-> 0]
            /\ UNCHANGED <<cw_entered, cw_cctx>>
       ELSE LET z == ZSTD_CCtx_setPledgedSrcSize(cw_cctx, cw_cfg.sourceSize)
            IN  IF z.isError
                THEN /\ cw_last' = [op |-> "enter", ok |-> FALSE, value |-> 0]
                     /\ UNCHANGED <<cw_entered, cw_cctx>>
                ELSE /\ cw_cctx' = z.cctx
                     /\ cw_entered' = TRUE
                     /\ cw_last' = [op |-> "enter", ok |-> TRUE, value |-> 0]
    /\ UNCHANGED <<cw_life, cw_cfg, cw_dest, cw_fed, cw_chunks, cw_bytesCompressed>>

RECURSIVE WriteLoop(_, _, _, _, _, _)
\* while (input.pos < source.len) of ZstdCompressionWriter_write:
\* [ok, cctx, dest, totalWrite]
WriteLoop(cctx, dest, source, pos, outSize, totalWrite) ==
    IF pos >= Len(source)
    THEN [ok |-> TRUE, cctx |-> cctx, dest |-> dest, totalWrite |-> totalWrite]
    ELSE LET z == ZSTD_compress_generic(cctx, source, pos, outSize, "continue")
         IN  IF z.isError
             THEN [ok |-> FALSE, cctx |-> z.cctx, dest |-> dest,
                   totalWrite |-> totalWrite]
             ELSE WriteLoop(z.cctx, dest \o z.out, source, z.pos, outSize,
                            totalWrite + Len(z.out))

\* DrainLoop making one call only, whatever it says is left to write out.
DrainLoop_Once(cctx, dest, outSize, totalWrite, directive) ==
    LET z == ZSTD_compress_generic(cctx, <<>>, 0, outSize, directive)
    IN  IF z.isError
        THEN [ok |-> FALSE, cctx |-> z.cctx, dest |-> dest, totalWrite |-> totalWrite]
        ELSE [ok |-> TRUE, cctx |-> z.cctx, dest |-> dest \o z.out,
              totalWrite |-> totalWrite + Len(z.out)]

RECURSIVE DrainLoop(_, _, _, _, _)
\* while (1) of ZstdCompressionWriter_flush and ZstdCompressionWriter_exit:
\* calls with an empty input until zresult is 0; [ok, cctx, dest, totalWrite]
DrainLoop(cctx, dest, outSize, totalWrite, directive) ==
    LET z == ZSTD_compress_generic(cctx, <<>>, 0, outSize, directive)
    IN  IF z.isError
        THEN [ok |-> FALSE, cctx |-> z.cctx, dest |-> dest, totalWrite |-> totalWrite]
        ELSE IF z.zresult = 0
        THEN [ok |-> TRUE, cctx |-> z.cctx, dest |-> dest \o z.out,
              totalWrite |-> totalWrite + Len(z.out)]
        ELSE DrainLoop(z.cctx, dest \o z.out, outSize, totalWrite + Len(z.out),
                       directive)

ZstdCompressionWriter_write(data) ==
    /\ cw_life # "none"
    /\ IF ~cw_entered
       THEN /\ cw_last' = [op |-> "write", ok |-> FALSE, value |-> 0]
            /\ UNCHANGED <<cw_cctx, cw_dest, cw_fed, cw_chunks, cw_bytesCompressed>>
       ELSE LET r == WriteLoop(cw_cctx, cw_dest, data, 0, cw_cfg.outSize, 0)
            IN  /\ cw_cctx' = r.cctx
                /\ cw_dest' = r.dest
                /\ cw_bytesCompressed' = cw_bytesCompressed + r.totalWrite
                /\ cw_fed' = cw_fed \o data
                /\ cw_chunks' = IF data = <<>> THEN cw_chunks ELSE Min(cw_chunks + 1, 2)
                /\ cw_last' = [op |-> "write", ok |-> r.ok,
                               value |-> IF r.ok THEN r.totalWrite ELSE 0]
    /\ UNCHANGED <<cw_life, cw_cfg, cw_entered>>

ZstdCompressionWriter_flush ==
    /\ cw_life # "none"
    /\ IF ~cw_entered
       THEN /\ cw_last' = [op |-> "flush", ok |-> FALSE, value |-> 0]
            /\ UNCHANGED <<cw_cctx, cw_dest, cw_bytesCompressed>>
       ELSE LET r == DrainLoop(cw_cctx, cw_dest, cw_cfg.outSize, 0, "flush")
            IN  /\ cw_cctx' = r.cctx
                /\ cw_dest' = r.dest
                /\ cw_bytesCompressed' = cw_bytesCompressed + r.totalWrite
                /\ cw_last' = [op |-> "flush", ok |-> r.ok,
                               value |-> IF r.ok THEN r.totalWrite ELSE 0]
    /\ UNCHANGED <<cw_life, cw_cfg, cw_entered, cw_fed, cw_chunks>>

\* __exit__(exc_type, exc_value, exc_tb); exception tells whether one is in flight
ZstdCompressionWriter_exit(exception) ==
    /\ cw_life # "none"
    /\ cw_entered' = FALSE
    /\ cw_life' = "exited"
    /\ IF exception
       THEN /\ cw_last' = [op |-> "exit", ok |-> TRUE, value |-> 1]
            /\ UNCHANGED <<cw_cctx, cw_dest>>
       ELSE LET r == DrainLoop(cw_cctx, cw_dest, cw_cfg.outSize, 0, "end")
            IN  /\ cw_cctx' = r.cctx
                /\ cw_dest' = r.dest
                /\ cw_last' = [op |-> "exit", ok |-> r.ok, value |-> 0]
    /\ UNCHANGED <<cw_cfg, cw_fed, cw_chunks, cw_bytesCompressed>>

\* The sizes of the staging output buffer the model tries: one too small for
\* any frame header or block, one that holds a header or a short block.
OutSizes == {1, 3}

\* One session: it is entered once, fed chunks that add up to at most MaxLen
\* bytes, flushed at will and exited once; enter, write and flush are also
\* called where the code refuses them.
WriterNext ==
    \/ \E level \in 1..MaxCLevel, wcs \in BOOLEAN, outSize \in OutSizes,
          sourceSize \in 0..MaxLen :
            ZstdCompressor_write_to(level, wcs, outSize, sourceSize)
               /\ UNCHANGED exceptWriter
    \/ (cw_life = "created" /\ ZstdCompressionWriter_enter /\ UNCHANGED exceptWriter)
    \/ \E data \in ByteStrings :
            /\ Len(cw_fed) + Len(data) <= MaxLen
            /\ ZstdCompressionWriter_write(data)
            /\ UNCHANGED exceptWriter
    \/ (ZstdCompressionWriter_flush /\ UNCHANGED exceptWriter)
    \/ \E exception \in BOOLEAN :
            /\ cw_entered
            /\ ZstdCompressionWriter_exit(exception)
            /\ UNCHANGED exceptWriter

\* Whether the last call was an exit with no exception in flight.
ExitedWithoutException ==
    cw_life = "exited" /\ cw_last.op = "exit" /\ cw_last.value = 0

\* What the one-shot decompressors make of the bytes the destination received.
DestDecodes(b) ==
    /\ DecodeFrame(cw_dest) = [ok |-> TRUE, bytes |-> b]
    /\ ZstdDecompressor_decompress(cw_dest, MaxLen + 1) = [ok |-> TRUE, bytes |-> b]

\* C6 as stated: after any chunks adding up to b were written through one
\* entered session and the session was exited without an exception, the
\* destination holds bytes that decompress to b.
C6_StreamingEquivalenceAsStated ==
    ExitedWithoutException => DestDecodes(cw_fed)

\* C6: the same for a session that declared no source size or declared the
\* size of b: the exit succeeds and the destination's bytes decompress to b,
\* which is what the frame of the one-shot compress(b) decompresses to.
C6_StreamingEquivalence ==
    (ExitedWithoutException /\ cw_cfg.sourceSize \in {0, Len(cw_fed)}) =>
        /\ cw_last.ok
        /\ DestDecodes(cw_fed)
        /\ LET oneShot == ZstdCompressor_compress(cw_cfg.level, cw_cfg.wcs, cw_fed)
           IN  oneShot.ok /\ DecodeFrame(oneShot.bytes) = DecodeFrame(cw_dest)

\* Three bytes written in two or more chunks through a staging buffer of one
\* byte, the session exited without an exception.
C6_Witness ==
    /\ ExitedWithoutException
    /\ cw_last.ok
    /\ cw_cfg.sourceSize = 0
    /\ cw_cfg.outSize = 1
    /\ Len(cw_fed) = 3
    /\ cw_chunks = 2
    /\ Len(cw_dest) > Len(cw_fed)

(***************************************************************************)
(* ZstdCompressionWriter (c-ext/compressionwriter.c) followed through its  *)
(* loops: one action for the start of a method, one for each call of       *)
(* ZSTD_compress_generic, one for what the loop does with the staging      *)
(* buffer after the call.                                                  *)
(***************************************************************************)
StepInit ==
    /\ wl_life = "none"
    /\ wl_cfg = [level |-> 1, wcs |-> FALSE, outSize |-> 1, sourceSize |-> 0]
    /\ wl_entered = FALSE
    /\ wl_cctx = NewCCtx(1, FALSE)
    /\ wl_pc = "idle"
    /\ wl_op = "none"
    /\ wl_input = <<>>
    /\ wl_pos = 0
    /\ wl_output = <<>>
    /\ wl_zresult = 0
    /\ wl_totalWrite = 0
    /\ wl_bytesCompressed = 0
    /\ wl_dest = <<>>
    /\ wl_produced = <<>>
    /\ wl_fed = 0
    /\ wl_exits = 0
    /\ wl_exc = FALSE
    /\ wl_wfail = FALSE
    /\ wl_last = [op |-> "none", ok |-> TRUE, value |-> 0, left |-> 0]

\* The n bytes a write() is given after fed bytes were given before.
StepChunk(fed, n) == [i \in 1..n |-> (fed + i) % (MaxByte + 1)]

\* The directive each method's loop hands to ZSTD_compress_generic.
Directive(op) ==
    IF op = "write" THEN "continue" ELSE IF op = "flush" THEN "flush" ELSE "end"

\* The locals of a method that has not called the native engine yet.
StepLocals(op, input) ==
    /\ wl_op' = op
    /\ wl_input' = input
    /\ wl_pos' = 0
    /\ wl_output' = <<>>
    /\ wl_zresult' = 0
    /\ wl_totalWrite' = 0

\* A method returns value (ok) or raises (~ok), and its locals are gone; left
\* is how many bytes of its input the engine had not consumed by then.
StepReturn(op, ok, value, left) ==
    /\ wl_pc' = "idle"
    /\ wl_last' = [op |-> op, ok |-> ok, value |-> value, left |-> left]
    /\ wl_op' = "none"
    /\ wl_input' = <<>>
    /\ wl_pos' = 0
    /\ wl_output' = <<>>
    /\ wl_zresult' = 0
    /\ wl_totalWrite' = 0

\* A method goes on to its next call of the native engine.
StepOn ==
    /\ wl_pc' = "native"
    /\ UNCHANGED wl_last

Step_write_to(level, wcs, outSize, sourceSize) ==
    /\ wl_pc = "idle" /\ wl_life = "none"
    /\ wl_life' = "created"
    /\ wl_cfg' = [level |-> level, wcs |-> wcs, outSize |-> outSize,
                  sourceSize |-> sourceSize]
    /\ wl_cctx' = NewCCtx(level, wcs)
    /\ wl_entered' = FALSE
    /\ wl_bytesCompressed' = 0
    /\ UNCHANGED <<wl_pc, wl_op, wl_input, wl_pos, wl_output, wl_zresult,
                   wl_totalWrite, wl_dest, wl_produced, wl_fed, wl_exits, wl_exc, wl_wfail, wl_last>>

Step_enter ==
    /\ wl_pc = "idle" /\ wl_life # "none"
    /\ IF wl_entered
       THEN /\ StepReturn("enter", FALSE, 0, 0)
            /\ UNCHANGED <<wl_entered, wl_cctx>>
       ELSE LET z == ZSTD_CCtx_setPledgedSrcSize(wl_cctx, wl_cfg.sourceSize)
            IN  IF z.isError
                THEN /\ StepReturn("enter", FALSE, 0, 0)
                     /\ UNCHANGED <<wl_entered, wl_cctx>>
                ELSE /\ wl_cctx' = z.cctx
                     /\ wl_entered' = TRUE
                     /\ StepReturn("enter", TRUE, 0, 0)
    /\ UNCHANGED <<wl_life, wl_cfg, wl_bytesCompressed, wl_dest, wl_produced,
                   wl_fed, wl_exits, wl_exc, wl_wfail>>

\* The loop of write that stops after its first call of the engine.
WriteLoopContinues_Never(pos, len) == FALSE

\* while ((ssize_t)input.pos < source.len) of ZstdCompressionWriter_write
WriteLoopContinues(pos, len) == pos < len

\* The __exit__ that ends the stream whether an exception is in flight or not.
ExitRunsEndLoop_Always(exception) == TRUE

\* if (exc_type == Py_None && exc_value == Py_None && exc_tb == Py_None)
ExitRunsEndLoop(exception) == ~exception

\* The loop of flush and __exit__ that stops after its first call of the engine.
DrainLoopContinues_Never(zresult) == FALSE

\* if (!zresult) break; of the loops of flush and __exit__
DrainLoopContinues(zresult) == zresult # 0

\* ZstdCompressionWriter_write up to its loop
StepWrite_begin(n) ==
    /\ wl_pc = "idle" /\ wl_life # "none"
    /\ IF ~wl_entered
       THEN /\ StepReturn("write", FALSE, 0, n)
            /\ UNCHANGED wl_fed
       ELSE /\ wl_fed' = wl_fed + n
            /\ IF WriteLoopContinues(0, n)
               THEN StepLocals("write", StepChunk(wl_fed, n)) /\ StepOn
               ELSE StepReturn("write", TRUE, 0, n)
    /\ UNCHANGED <<wl_life, wl_cfg, wl_entered, wl_cctx, wl_bytesCompressed,
                   wl_dest, wl_produced, wl_exits, wl_exc, wl_wfail>>

\* ZstdCompressionWriter_flush up to its loop
StepFlush_begin ==
    /\ wl_pc = "idle" /\ wl_life # "none"
    /\ IF ~wl_entered
       THEN StepReturn("flush", FALSE, 0, 0)
       ELSE StepLocals("flush", <<>>) /\ StepOn
    /\ UNCHANGED <<wl_life, wl_cfg, wl_entered, wl_cctx, wl_bytesCompressed,
                   wl_dest, wl_produced, wl_fed, wl_exits, wl_exc, wl_wfail>>

\* ZstdCompressionWriter_exit up to its loop
StepExit_begin(exception) ==
    /\ wl_pc = "idle" /\ wl_life # "none"
    /\ wl_entered' = FALSE
    /\ wl_life' = "exited"
    /\ wl_exits' = wl_exits + 1
    /\ wl_exc' = exception
    /\ IF ExitRunsEndLoop(exception)
       THEN StepLocals("exit", <<>>) /\ StepOn
       ELSE StepReturn("exit", TRUE, 0, 0)
    /\ UNCHANGED <<wl_cfg, wl_cctx, wl_bytesCompressed, wl_dest, wl_produced, wl_fed,
                   wl_wfail>>

\* zresult = ZSTD_compress_generic(cctx, &output, &input, directive) and the
\* test of ZSTD_isError that follows it.  A failed call reports nothing
\* produced, and the method frees the staging buffer and raises.
StepNativeCall ==
    /\ wl_pc = "native"
    /\ LET z == ZSTD_compress_generic(wl_cctx, wl_input, wl_pos, wl_cfg.outSize,
                                      Directive(wl_op))
       IN  /\ wl_cctx' = z.cctx
           /\ IF z.isError
              THEN /\ StepReturn(wl_op, FALSE, 0, Len(wl_input) - wl_pos)
                   /\ UNCHANGED wl_produced
              ELSE /\ wl_pc' = "deliver"
                   /\ wl_output' = z.out
                   /\ wl_pos' = z.pos
                   /\ wl_zresult' = z.zresult
                   /\ wl_produced' = wl_produced \o z.out
                   /\ UNCHANGED <<wl_op, wl_input, wl_totalWrite, wl_last>>
    /\ UNCHANGED <<wl_life, wl_cfg, wl_entered, wl_bytesCompressed, wl_dest,
                   wl_fed, wl_exits, wl_exc, wl_wfail>>

\* What write and flush add to totalWrite and bytesCompressed for the n bytes
\* they hand to the destination; __exit__ counts nothing.
Counted(op, n) == IF op = "exit" THEN 0 ELSE n

\* The rest of the loop body: if (output.pos) the staging buffer goes to the
\* destination's write(), which returns or raises and whose result is dropped
\* (Py_XDECREF(res)), and is counted; then the staging buffer is taken for
\* empty again and the loop goes on, or the method frees it and returns.
StepDeliver ==
    /\ wl_pc = "deliver"
    /\ wl_dest' = wl_dest \o wl_output
    /\ \E raised \in IF wl_output # <<>> THEN BOOLEAN ELSE {FALSE} :
          wl_wfail' = (wl_wfail \/ raised)
    /\ wl_bytesCompressed' = wl_bytesCompressed + Counted(wl_op, Len(wl_output))
    /\ IF \/ wl_op = "write" /\ WriteLoopContinues(wl_pos, Len(wl_input))
          \/ wl_op # "write" /\ DrainLoopContinues(wl_zresult)
       THEN /\ StepOn
            /\ wl_output' = <<>>
            /\ wl_totalWrite' = wl_totalWrite + Counted(wl_op, Len(wl_output))
            /\ UNCHANGED <<wl_op, wl_input, wl_pos, wl_zresult>>
       ELSE StepReturn(wl_op, TRUE,
                       wl_totalWrite + Counted(wl_op, Len(wl_output)),
                       Len(wl_input) - wl_pos)
    /\ UNCHANGED <<wl_life, wl_cfg, wl_entered, wl_cctx, wl_produced, wl_fed,
                   wl_exits, wl_exc>>

\* One writer: made once, declaring no source size or one byte less than it
\* may be fed; entered once, fed at most MaxLen bytes in chunks, flushed at
\* will, its __exit__ called while it is entered and once more after that;
\* write and flush are also called where the code refuses them.
StepNext ==
    \/ \E level \in 1..MaxCLevel, wcs \in BOOLEAN, outSize \in OutSizes,
          sourceSize \in {0, MaxLen - 1} :
            Step_write_to(level, wcs, outSize, sourceSize) /\ UNCHANGED exceptStep
    \/ (wl_life = "created" /\ Step_enter /\ UNCHANGED exceptStep)
    \/ \E n \in 0..MaxLen :
            /\ wl_fed + n <= MaxLen
            /\ StepWrite_begin(n)
            /\ UNCHANGED exceptStep
    \/ (StepFlush_begin /\ UNCHANGED exceptStep)
    \/ \E exception \in BOOLEAN :
            /\ wl_entered \/ wl_exits = 1
            /\ StepExit_begin(exception)
            /\ UNCHANGED exceptStep
    \/ (StepNativeCall /\ UNCHANGED exceptStep)
    \/ (StepDeliver /\ UNCHANGED exceptStep)

\* The step a running method takes next: StepNativeCall where wl_pc is
\* "native", StepDeliver where it is "deliver"; no other step of StepNext
\* moves wl_pc away from these two.
StepRuns ==
    /\ wl_pc # "idle"
    /\ wl_pc' \in {"idle", "native", "deliver"} \ {wl_pc}

\* Whether the last method to end was an __exit__ that returned normally, no
\* exception having been in flight.
ExitReturnedNormally ==
    /\ wl_pc = "idle"
    /\ wl_last.op = "exit" /\ wl_last.ok /\ ~wl_exc

\* C11: an __exit__ with no exception in flight calls the native engine with
\* the end directive again and again until the engine reports nothing left:
\* before each of these calls every byte the earlier calls produced has been
\* written to the destination, after each of them the engine reports what it
\* still holds, when __exit__ returns the engine holds a finished frame of
\* which no byte is left in the engine or in the staging buffer, and once
\* begun __exit__ does come to its end (it returns, or raises the engine's error).
C11_ExitDrainsToDestination ==
    /\ [](/\ (wl_op = "exit" /\ wl_pc = "native") =>
                 /\ Directive(wl_op) = "end"
                 /\ wl_output = <<>>
                 /\ wl_produced = wl_dest
          /\ (wl_op = "exit" /\ wl_pc = "deliver") =>
                 /\ wl_zresult = Len(wl_cctx.pending)
                 /\ wl_produced = wl_dest \o wl_output
          /\ ExitReturnedNormally =>
                 /\ wl_cctx.stage = "done"
                 /\ wl_cctx.pending = <<>>
                 /\ wl_output = <<>>
                 /\ wl_produced = wl_dest)
    /\ ((wl_op = "exit" /\ wl_pc # "idle") ~> (wl_last.op = "exit" /\ wl_pc = "idle"))

\* An __exit__ that returned after several calls of the engine: three bytes
\* fed, a staging buffer of one byte, a destination that got the whole frame.
C11_Witness ==
    /\ ExitReturnedNormally
    /\ wl_exits = 1
    /\ wl_cfg.outSize = 1
    /\ wl_fed = 3
    /\ Len(wl_dest) > 5
    /\ DecodeFrame(wl_dest).ok

\* C12: an __exit__ with an exception in flight is over in one step: it
\* makes no call of the native engine and no write() on the destination, it
\* returns without an error, and of the writer and its compressor nothing
\* changes but entered, which is cleared; if the writer was entered, the
\* stream stays unterminated: the engine has not finished a frame and what the
\* destination holds is not a whole frame.
C12_ExitWithExceptionOnlyLeaves ==
    [][(wl_exits' # wl_exits /\ wl_exc') =>
          /\ wl_pc' = "idle"
          /\ wl_last' = [op |-> "exit", ok |-> TRUE, value |-> 0, left |-> 0]
          /\ ~wl_entered'
          /\ wl_cctx' = wl_cctx
          /\ wl_dest' = wl_dest
          /\ wl_produced' = wl_produced
          /\ wl_bytesCompressed' = wl_bytesCompressed
          /\ wl_cfg' = wl_cfg
          /\ wl_entered => /\ wl_cctx'.stage # "done"
                           /\ ~DecodeFrame(wl_dest').ok]_vars

\* An entered writer that was fed and flushed, then left by an exception: the
\* destination holds the beginning of a frame.
C12_Witness ==
    /\ wl_pc = "idle"
    /\ wl_last.op = "exit" /\ wl_exc
    /\ wl_exits = 1
    /\ wl_fed = 2
    /\ wl_cctx.stage = "open"
    /\ Len(wl_dest) > 2

\* C13: a write(chunk) that returns normally has had the native engine
\* consume every byte of chunk; what the engine produced and the destination
\* has not been given is at all times what lies in the one staging buffer, at
\* most outSize bytes; the staging buffer is empty before each native call of
\* write, and when write returns nothing produced is undelivered.
C13_WriteConsumesAndDelivers ==
    /\ wl_produced = wl_dest \o wl_output
    /\ Len(wl_output) <= wl_cfg.outSize
    /\ (wl_op = "write" /\ wl_pc = "native") => wl_output = <<>>
    /\ (wl_pc = "idle" /\ wl_last.op = "write" /\ wl_last.ok) =>
           /\ wl_last.left = 0
           /\ wl_output = <<>>
           /\ wl_produced = wl_dest

\* A write of three bytes in one chunk that returned after handing the
\* destination three bytes or more through a staging buffer of one byte.
C13_Witness ==
    /\ wl_pc = "idle"
    /\ wl_last.op = "write" /\ wl_last.ok
    /\ wl_cfg.outSize = 1
    /\ wl_fed = 3
    /\ wl_last.value >= 3
    /\ wl_bytesCompressed = wl_last.value

\* C20: an __exit__ called on a compression writer whose __exit__ has
\* returned once before is a no-op: it does not fail, makes no native call,
\* hands no further bytes to the destination and changes no state of the
\* writer, with or without an exception in flight.
C20_SecondExitIsNoOp ==
    [][wl_exits' = 2
       => /\ wl_cctx' = wl_cctx
          /\ wl_produced' = wl_produced
          /\ wl_dest' = wl_dest
          /\ wl_entered' = wl_entered
          /\ wl_bytesCompressed' = wl_bytesCompressed
          /\ (wl_last'.op = "exit" => wl_last'.ok)]_vars

\* C21: when the destination's write() raises during a write, a flush or an
\* exit of the compression writer, the method stops there: the step in which
\* write() raises ends the method, the method reports a failure rather than
\* a value, and the bytes of the failed write are not counted as written.
C21_DestinationFailureStops ==
    [][(wl_pc = "deliver" /\ ~wl_wfail /\ wl_wfail')
       => /\ wl_pc' = "idle"
          /\ ~wl_last'.ok
          /\ wl_bytesCompressed' = wl_bytesCompressed]_vars

\* C22: once the native engine has returned an error code to a write or a
\* flush of the compression writer, the session is not usable again: a later
\* write or flush on it makes no native call and does not return a value.
C22_NativeErrorEndsSession ==
    [][(wl_cctx.stage = "error" /\ wl_pc = "idle")
       => /\ (wl_pc' = "native" => wl_op' \notin {"write", "flush"})
          /\ ((wl_last' # wl_last /\ wl_last'.op \in {"write", "flush"})
                => ~wl_last'.ok)]_vars

\* C38: tell() is the number of compressed bytes the session has passed to
\* the destination's write so far, those of write, of flush and of the
\* end-of-stream loop of __exit__.
C38_TellCountsDelivered ==
    wl_bytesCompressed = Len(wl_dest)

(***************************************************************************)
(* ZstdCompressorIterator (zstd.c): the iterator read_from(reader) makes.  *)
(* Each next() is one action; what the reader's read() returns is chosen   *)
(* inside it.                                                              *)
(***************************************************************************)
\* ZSTD_CStreamInSize(): the largest block the engine takes in
ZSTD_CStreamInSize == ZSTD_getCParams(MaxCLevel)

\* ZSTD_CStreamOutSize(): room for all a call can produce from such a block
ZSTD_CStreamOutSize == ZSTD_compressBound(ZSTD_CStreamInSize)

\* ZSTD_compressStream(cstream, &output, &input) with output.pos = 0
ZSTD_compressStream(cstream, input, pos, room) ==
    ZSTD_compress_generic(cstream, input, pos, room, "continue")

\* ZSTD_endStream(cstream, &output) with output.pos = 0
ZSTD_endStream(cstream, room) ==
    ZSTD_compress_generic(cstream, <<>>, 0, room, "end")

\* CStream_from_ZstdCompressor(compressor, sourceSize)
CStream_from_ZstdCompressor(level, wcs, sourceSize) ==
    [NewCCtx(level, wcs) EXCEPT !.pledged = sourceSize]

CIterInit ==
    /\ ci_life = "none"
    /\ ci_cfg = [level |-> 1, wcs |-> FALSE, sourceSize |-> 0]
    /\ ci_reader = [data |-> <<>>, pos |-> 0, eof |-> FALSE]
    /\ ci_it = [cstream |-> NewCCtx(1, FALSE), input |-> <<>>, ipos |-> 0,
                finishedOutput |-> FALSE]
    /\ ci_ended = FALSE
    /\ ci_yielded = <<>>
    /\ ci_last = [result |-> "none", len |-> 0]

\* ZstdCompressor(level, write_content_size).read_from(reader, size) on a
\* reader that holds data
ZstdCompressor_read_from(level, wcs, data, sourceSize) ==
    /\ ci_life = "none"
    /\ ci_life' = "made"
    /\ ci_cfg' = [level |-> level, wcs |-> wcs, sourceSize |-> sourceSize]
    /\ ci_reader' = [data |-> data, pos |-> 0, eof |-> FALSE]
    /\ ci_it' = [cstream |-> CStream_from_ZstdCompressor(level, wcs, sourceSize),
                 input |-> <<>>, ipos |-> 0, finishedOutput |-> FALSE]
    /\ UNCHANGED <<ci_ended, ci_yielded, ci_last>>

\* next() raises: StopIteration ("stop") or an error
CIterRaise(result) ==
    /\ ci_last' = [result |-> result, len |-> 0]
    /\ UNCHANGED ci_yielded

\* next() returns PyBytes_FromStringAndSize(output.dst, output.pos)
CIterYield(chunk) ==
    /\ ci_last' = [result |-> "chunk", len |-> Len(chunk)]
    /\ ci_yielded' = ci_yielded \o chunk

\* The end of next() from a call of ZSTD_endStream on: the iterator it, whose
\* cstream the call is made on.
CIterEnd(it) ==
    LET z == ZSTD_endStream(it.cstream, ZSTD_CStreamOutSize)
    IN  /\ ci_ended' = TRUE
        /\ IF z.isError
           THEN /\ ci_it' = [it EXCEPT !.cstream = z.cctx]
                /\ CIterRaise("error")
           ELSE /\ ci_it' = [it EXCEPT !.cstream = z.cctx,
                                       !.finishedOutput =
                                           IF Len(z.out) < ZSTD_CStreamOutSize
                                           THEN TRUE ELSE it.finishedOutput]
                /\ CIterYield(z.out)

\* next() from its call of the reader's read(insize) on, which fails or
\* returns n bytes, no more than asked for and than the reader has left and
\* none only when it has none left.
CIterRead(it, fails, n) ==
    IF fails
    THEN /\ ci_it' = it
         /\ CIterRaise("error")
         /\ UNCHANGED <<ci_reader, ci_ended>>
    ELSE /\ ci_reader' = [ci_reader EXCEPT !.pos = ci_reader.pos + n,
                                           !.eof = ci_reader.eof \/ n = 0]
         /\ IF n = 0
            THEN CIterEnd(it)
            ELSE LET input == SubSeq(ci_reader.data, ci_reader.pos + 1,
                                     ci_reader.pos + n)
                     z == ZSTD_compressStream(it.cstream, input, 0,
                                              ZSTD_CStreamOutSize)
                     fed == [it EXCEPT !.cstream = z.cctx, !.input = input,
                                       !.ipos = z.pos]
                 IN  IF z.isError
                     THEN /\ ci_it' = fed
                          /\ CIterRaise("error")
                          /\ UNCHANGED ci_ended
                     ELSE IF z.out = <<>>
                     THEN CIterEnd(fed)
                     ELSE /\ ci_it' = fed
                          /\ CIterYield(z.out)
                          /\ UNCHANGED ci_ended

\* The sizes of what read(insize) may return from a reader with left bytes left.
ReadSizes(insize, left) ==
    IF left = 0 THEN {0} ELSE 1..Min(insize, left)

ZstdCompressorIterator_iternext ==
    /\ ci_life = "made"
    /\ \E fails \in BOOLEAN,
          n \in ReadSizes(ZSTD_CStreamInSize, Len(ci_reader.data) - ci_reader.pos) :
          IF ci_it.finishedOutput
          THEN /\ CIterRaise("stop")
               /\ UNCHANGED <<ci_reader, ci_it, ci_ended>>
          ELSE IF ci_it.ipos < Len(ci_it.input)
          THEN LET z == ZSTD_compressStream(ci_it.cstream, ci_it.input, ci_it.ipos,
                                            ZSTD_CStreamOutSize)
                   it == [ci_it EXCEPT !.cstream = z.cctx, !.ipos = z.pos]
               IN  IF z.isError
                   THEN /\ ci_it' = it
                        /\ CIterRaise("error")
                        /\ UNCHANGED <<ci_reader, ci_ended>>
                   ELSE IF z.out # <<>>
                   THEN /\ ci_it' = it
                        /\ CIterYield(z.out)
                        /\ UNCHANGED <<ci_reader, ci_ended>>
                   ELSE CIterRead(it, fails, n)
          ELSE CIterRead(ci_it, fails, n)
    /\ UNCHANGED <<ci_life, ci_cfg>>

\* One iterator over a reader that holds at most MaxLen bytes; the size given
\* to read_from is none or that of the reader's data.
CIterNext ==
    \/ \E level \in 1..MaxCLevel, wcs \in BOOLEAN, data \in ByteStrings,
          sized \in BOOLEAN :
            /\ ZstdCompressor_read_from(level, wcs, data,
                                        IF sized THEN Len(data) ELSE 0)
            /\ UNCHANGED exceptCIter
    \/ (ZstdCompressorIterator_iternext /\ UNCHANGED exceptCIter)

(***************************************************************************)
(* The native streaming decompressor.  A dstream is                        *)
(*   [stage, inbuf, need, last, declared, decoded, pending, hostageByte]   *)
(* stage "header", "blockhdr" or "body": the part of the frame it is       *)
(* collecting in inbuf; "done" once the last block was decoded; "error"    *)
(* after a failed call; need and last the size and the flag of the block   *)
(* being collected; declared the content size of the header (-1: none);    *)
(* decoded the bytes decoded so far; pending the decoded bytes not yet     *)
(* handed out.  A block is decoded when all of it has come in.  A call     *)
(* that decodes the last block and cannot hand all of it out gives the     *)
(* last input byte back to its caller (hostageByte) and skips it once the  *)
(* rest was handed out, so that the caller has input left to call with.    *)
(***************************************************************************)
NewDStream ==
    [stage |-> "header", inbuf |-> <<>>, need |-> 0, last |-> 0,
     declared |-> 0 - 1, decoded |-> 0, pending |-> <<>>, hostageByte |-> FALSE]

\* How many bytes the part being collected has.
UnitSize(d) ==
    IF d.stage = "header"
    THEN (IF Len(d.inbuf) >= 2 /\ d.inbuf[2] = 1 THEN 3 ELSE 2)
    ELSE IF d.stage = "blockhdr" THEN 2
    ELSE d.need

\* The dstream after the part it was collecting has come in whole.
UnitDone(d) ==
    IF d.stage = "header"
    THEN IF d.inbuf[1] # ZSTD_MAGIC \/ d.inbuf[2] \notin {0, 1}
         THEN [d EXCEPT !.stage = "error"]
         ELSE [d EXCEPT !.stage = "blockhdr", !.inbuf = <<>>,
                        !.declared = IF d.inbuf[2] = 1 THEN d.inbuf[3] ELSE 0 - 1]
    ELSE IF d.stage = "blockhdr"
    THEN IF d.inbuf[1] \notin {0, 1} \/ d.inbuf[2] \notin Nat
         THEN [d EXCEPT !.stage = "error"]
         ELSE [d EXCEPT !.stage = "body", !.inbuf = <<>>, !.last = d.inbuf[1],
                        !.need = d.inbuf[2]]
    ELSE LET decoded == d.decoded + d.need
         IN  IF d.last = 1 /\ d.declared >= 0 /\ d.declared # decoded
             THEN [d EXCEPT !.stage = "error"]
             ELSE [d EXCEPT !.stage = IF d.last = 1 THEN "done" ELSE "blockhdr",
                            !.inbuf = <<>>, !.decoded = decoded,
                            !.pending = d.inbuf]

\* What a call returns that ends without an error.
DecompressReturn(d, pos, out, zresult) ==
    [dstream |-> d, pos |-> pos, out |-> out, isError |-> FALSE, zresult |-> zresult]

\* The end of a call that can go no further: the dstream d has handed out
\* what the output buffer had room for.
DecompressStop(d, input, pos, out) ==
    IF d.stage = "done"
    THEN IF d.pending # <<>>
         THEN IF d.hostageByte THEN DecompressReturn(d, pos, out, 1)
              ELSE DecompressReturn([d EXCEPT !.hostageByte = TRUE], pos - 1, out, 1)
         ELSE IF ~d.hostageByte THEN DecompressReturn(d, pos, out, 0)
         ELSE IF pos >= Len(input) THEN DecompressReturn(d, pos, out, 1)
         ELSE DecompressReturn([d EXCEPT !.hostageByte = FALSE], pos + 1, out, 0)
    ELSE IF d.pending # <<>> THEN DecompressReturn(d, pos, out, 1)
    ELSE DecompressReturn(d, pos, out, 2 + UnitSize(d) - Len(d.inbuf))

RECURSIVE DecompressRun(_, _, _, _, _)
\* One call on a dstream: out is what the call has put into the output buffer
\* of size room so far, pos the input position.  The result is 0 when the
\* frame is decoded and handed out whole, 1 when decoded bytes are left to
\* hand out or the byte given back is yet to come, and more than 1 when more
\* input is expected.
DecompressRun(dstream, input, pos, out, room) ==
    LET k  == Min(room - Len(out), Len(dstream.pending))
        d1 == [dstream EXCEPT !.pending = Drop(dstream.pending, k)]
        o1 == out \o Take(dstream.pending, k)
        stop == DecompressStop(d1, input, pos, o1)
    IN  IF d1.pending # <<>> \/ d1.stage = "done" THEN stop
        ELSE IF Len(d1.inbuf) = UnitSize(d1)
        THEN LET d2 == UnitDone(d1)
             IN  IF d2.stage = "error"
                 THEN [dstream |-> d2, pos |-> pos, out |-> o1, isError |-> TRUE,
                       zresult |-> 0]
                 ELSE DecompressRun(d2, input, pos, o1, room)
        ELSE IF pos < Len(input)
        THEN LET n == Min(Len(input) - pos, UnitSize(d1) - Len(d1.inbuf))
             IN  DecompressRun([d1 EXCEPT !.inbuf = d1.inbuf
                                              \o SubSeq(input, pos + 1, pos + n)],
                               input, pos + n, o1, room)
        ELSE stop

\* ZSTD_decompressStream(dstream, &output, &input) with output.pos = 0,
\* output.size = room and input.pos = pos: [dstream, pos, out, isError, zresult]
ZSTD_decompressStream(dstream, input, pos, room) ==
    IF dstream.stage = "error"
    THEN [dstream |-> dstream, pos |-> pos, out |-> <<>>, isError |-> TRUE,
          zresult |-> 0]
    ELSE IF dstream.stage = "done" /\ dstream.pending = <<>> /\ ~dstream.hostageByte
    THEN DecompressRun(NewDStream, input, pos, <<>>, room)
    ELSE DecompressRun(dstream, input, pos, <<>>, room)

(***************************************************************************)
(* ZstdDecompressorIterator (zstd.c): the iterator read_from(reader) makes.*)
(***************************************************************************)
\* ZSTD_DStreamOutSize(): the largest content of a block
ZSTD_DStreamOutSize == ZSTD_getCParams(MaxCLevel)

\* ZSTD_DStreamInSize(): a block of that size and its header
ZSTD_DStreamInSize == ZSTD_DStreamOutSize + 2

DIterInit ==
    /\ di_life = "none"
    /\ di_reader = [data |-> <<>>, pos |-> 0, eof |-> FALSE]
    /\ di_it = [dstream |-> NewDStream, input |-> <<>>, ipos |-> 0, readCount |-> 0,
                finishedInput |-> FALSE, finishedOutput |-> FALSE]
    /\ di_yielded = <<>>
    /\ di_last = [result |-> "none", len |-> 0]

\* ZstdDecompressor().read_from(reader) on a reader that holds data
ZstdDecompressor_read_from(data) ==
    /\ di_life = "none"
    /\ di_life' = "made"
    /\ di_reader' = [data |-> data, pos |-> 0, eof |-> FALSE]
    /\ di_it' = [dstream |-> NewDStream, input |-> <<>>, ipos |-> 0, readCount |-> 0,
                 finishedInput |-> FALSE, finishedOutput |-> FALSE]
    /\ UNCHANGED <<di_yielded, di_last>>

\* read_decompressor_iterator: [it, errored, chunk]; chunk <<>> stands for a
\* NULL chunk
read_decompressor_iterator(it) ==
    LET z == ZSTD_decompressStream(it.dstream, it.input, it.ipos,
                                   ZSTD_DStreamOutSize)
    IN  IF z.isError
        THEN [it |-> [it EXCEPT !.dstream = z.dstream, !.ipos = z.pos],
              errored |-> TRUE, chunk |-> <<>>]
        ELSE [it |-> [it EXCEPT !.dstream = z.dstream, !.ipos = z.pos,
                                !.readCount = it.readCount + (z.pos - it.ipos),
                                !.finishedInput =
                                    IF z.zresult = 0 THEN TRUE ELSE it.finishedInput,
                                !.finishedOutput =
                                    IF z.zresult = 0 THEN TRUE ELSE it.finishedOutput],
              errored |-> FALSE, chunk |-> z.out]

\* The iterator that takes every chunk, an empty one too, for one to return.
DIterHasChunk_Always(chunk) == TRUE

\* if (self->output.pos) ... else chunk = NULL; and the callers' test of
\* result.chunk: whether a call of read_decompressor_iterator gave a chunk
DIterHasChunk(chunk) == chunk # <<>>

\* How a next() ends: the iterator and the reader it leaves, and what it
\* returns or raises.
DIterOutcome(it, reader, result, chunk) ==
    [it |-> it, reader |-> reader, result |-> result, chunk |-> chunk]

RECURSIVE DIterFromSource(_, _)
\* next() from its call of read_decompressor_iterator after read_from_source
\* on: the ways it can end.
DIterDecode(it, reader) ==
    LET r == read_decompressor_iterator(it)
    IN  IF r.errored THEN {DIterOutcome(r.it, reader, "error", <<>>)}
        ELSE IF DIterHasChunk(r.chunk)
        THEN {DIterOutcome(r.it, reader, "chunk", r.chunk)}
        ELSE IF ~r.it.finishedInput THEN DIterFromSource(r.it, reader)
        ELSE {DIterOutcome(r.it, reader, "stop", <<>>)}

\* next() from the return of a read(insize) that gave n bytes on.
DIterAfterRead(it, reader, n) ==
    LET reader1 == [reader EXCEPT !.pos = reader.pos + n,
                                  !.eof = reader.eof \/ n = 0]
    IN  IF n > 0
        THEN DIterDecode([it EXCEPT !.input = SubSeq(reader.data, reader.pos + 1,
                                                     reader.pos + n),
                                    !.ipos = 0], reader1)
        ELSE IF it.readCount = 0
        THEN {DIterOutcome([it EXCEPT !.finishedInput = TRUE,
                                      !.finishedOutput = TRUE],
                           reader1, "stop", <<>>)}
        ELSE DIterDecode([it EXCEPT !.finishedInput = TRUE], reader1)

\* next() from the label read_from_source on: the ways it can end, one for
\* each way the reads of the reader can go (a read(insize) fails, or returns
\* no more bytes than asked for and than the reader has left, and none only
\* when it has none left).
DIterFromSource(it, reader) ==
    IF it.finishedInput THEN DIterDecode(it, reader)
    ELSE {DIterOutcome(it, reader, "error", <<>>)}
         \cup UNION {DIterAfterRead(it, reader, n) :
                        n \in ReadSizes(ZSTD_DStreamInSize,
                                        Len(reader.data) - reader.pos)}

\* The ways a next() can end.
DIterOutcomes(it, reader) ==
    IF it.finishedOutput THEN {DIterOutcome(it, reader, "stop", <<>>)}
    ELSE IF it.ipos < Len(it.input)
    THEN LET r == read_decompressor_iterator(it)
         IN  IF r.errored THEN {DIterOutcome(r.it, reader, "error", <<>>)}
             ELSE IF DIterHasChunk(r.chunk)
             THEN {DIterOutcome(r.it, reader, "chunk", r.chunk)}
             ELSE DIterFromSource(r.it, reader)
    ELSE DIterFromSource(it, reader)

ZstdDecompressorIterator_iternext ==
    /\ di_life = "made"
    /\ \E o \in DIterOutcomes(di_it, di_reader) :
          /\ di_it' = o.it
          /\ di_reader' = o.reader
          /\ di_last' = [result |-> o.result, len |-> Len(o.chunk)]
          /\ di_yielded' = di_yielded \o o.chunk
    /\ UNCHANGED di_life

\* What the readers of the decompression iterator hold: a frame of at most
\* MaxLen bytes (one content of each length), whole, or with its last byte
\* missing, or with a wrong first byte; or nothing.
Upstreams ==
    {<<>>} \cup
    UNION {LET f == EncodeFrame(StepChunk(0, n), flag, ZSTD_getCParams(level))
           IN  {f, Take(f, Len(f) - 1), <<0>> \o Drop(f, 1)} :
               n \in 0..MaxLen, flag \in BOOLEAN, level \in 1..MaxCLevel}

\* One pull iterator, of the compressor or of the decompressor.
IterNext ==
    \/ \E level \in 1..MaxCLevel, wcs \in BOOLEAN, data \in ByteStrings,
          sized \in BOOLEAN :
            /\ di_life = "none"
            /\ ZstdCompressor_read_from(level, wcs, data,
                                        IF sized THEN Len(data) ELSE 0)
            /\ UNCHANGED exceptCIter
    \/ (ZstdCompressorIterator_iternext /\ UNCHANGED exceptCIter)
    \/ \E data \in Upstreams :
            /\ ci_life = "none"
            /\ ZstdDecompressor_read_from(data)
            /\ UNCHANGED exceptDIter
    \/ (ZstdDecompressorIterator_iternext /\ UNCHANGED exceptDIter)

\* C14: a next() of the compression iterator or of the decompression
\* iterator returns a chunk of one byte or more, or raises StopIteration or
\* an error; it never returns an empty chunk.
C14_NoEmptyChunk ==
    /\ ci_last.result \in {"none", "chunk", "stop", "error"}
    /\ di_last.result \in {"none", "chunk", "stop", "error"}
    /\ ci_last.result = "chunk" => ci_last.len > 0
    /\ di_last.result = "chunk" => di_last.len > 0

\* A decompression iterator that has returned the three bytes of a frame in
\* more than one chunk, its reader having given it the frame in pieces.
C14_Witness ==
    /\ di_last.result = "chunk"
    /\ di_last.len < 3
    /\ Len(di_yielded) = 3
    /\ di_it.finishedOutput
    /\ di_it.readCount = Len(di_reader.data)

\* C15: the compression iterator calls ZSTD_endStream only after a read() of
\* the upstream has returned nothing; once its output is finished the chunks
\* it has yielded are a frame of all the upstream's bytes; and a next() called
\* after the last bytes of the frame were yielded raises StopIteration.
C15_EndOnlyAfterEOF ==
    /\ [](ci_ended => ci_reader.eof)
    /\ [](ci_it.finishedOutput =>
              DecodeFrame(ci_yielded) = [ok |-> TRUE, bytes |-> ci_reader.data])
    /\ [][(/\ ci_life = "made"
           /\ ci_it.cstream.stage = "done"
           /\ ci_it.cstream.pending = <<>>) => ci_last'.result = "stop"]_citerVars

(***************************************************************************)
(* Sessions.  Two session objects are made from one compressor and one     *)
(* decompressor; what a call moves is followed by counts and flags, not by *)
(* bytes.  The kinds:                                                      *)
(*   "cwriter"  ZstdCompressionWriter of c-ext/compressionwriter.c         *)
(*   "creader"  ZstdCompressionReader of c-ext/compressionreader.c         *)
(*   "dreader"  ZstdDecompressionReader of c-ext/decompressionreader.c     *)
(*   "zcwriter" ZstdCompressionWriter of zstd.c, which owns a cstream      *)
(*   "zdwriter" ZstdDecompressionWriter of zstd.c, which owns a dstream    *)
(* The first two use compressor->cctx, the third decompressor->dctx.       *)
(***************************************************************************)
Ids == {1, 2}
Kinds == {"cwriter", "creader", "dreader", "zcwriter", "zdwriter"}
Handles == 1..MaxHandles

NoSession ==
    [kind |-> "none", entered |-> FALSE, closed |-> FALSE, finished |-> FALSE,
     cleared |-> FALSE, stream |-> 0, count |-> 0]

NoStep == [id |-> 0, op |-> "none", result |-> "ok", native |-> FALSE, collab |-> FALSE]

\* What a call that touched neither the native engine nor a collaborator returns.
Returned(s, op, result) ==
    [id |-> s, op |-> op, result |-> result, native |-> FALSE, collab |-> FALSE]

SessionInit ==
    /\ ss_sessions = [s \in Ids |-> NoSession]
    /\ ss_cctx = [stage |-> "init", users |-> {}]
    /\ ss_dctx = [users |-> {}]
    /\ ss_handles = [h \in Handles |-> "unused"]
    /\ ss_crashed = FALSE
    /\ ss_step = NoStep

\* compressor.write_to(), compressor.stream_reader(), decompressor.stream_reader(),
\* decompressor.write_to(): a new session object of the kind
NewSession(s, kind) ==
    /\ ~ss_crashed
    /\ ss_sessions[s].kind = "none"
    /\ ss_sessions' = [ss_sessions EXCEPT ![s] = [NoSession EXCEPT !.kind = kind]]
    /\ ss_step' = Returned(s, "new", "ok")
    /\ UNCHANGED <<ss_cctx, ss_dctx, ss_handles, ss_crashed>>

\* The calls below are made on a session of their kind while the process runs.
Is(s, kind) == ~ss_crashed /\ ss_sessions[s].kind = kind

\* A call refused for the state the session is in: nothing but the error.
Refused(s, op) ==
    /\ ss_step' = Returned(s, op, "state")
    /\ UNCHANGED <<ss_sessions, ss_cctx, ss_dctx, ss_handles, ss_crashed>>

\* A call refused for its arguments.
BadArgument(s, op) ==
    /\ ss_step' = Returned(s, op, "arg")
    /\ UNCHANGED <<ss_sessions, ss_cctx, ss_dctx, ss_handles, ss_crashed>>

\* ZSTD_CCtx_setPledgedSrcSize on the shared cctx, made by enter of session s:
\* refused by the engine inside a frame.
EnterOnCCtx(s, op) ==
    IF ss_cctx.stage # "init"
    THEN /\ ss_step' = [id |-> s, op |-> op, result |-> "native", native |-> TRUE,
                        collab |-> FALSE]
         /\ UNCHANGED <<ss_sessions, ss_cctx>>
    ELSE /\ ss_sessions' = [ss_sessions EXCEPT ![s].entered = TRUE]
         /\ ss_step' = [id |-> s, op |-> op, result |-> "ok", native |-> TRUE,
                        collab |-> FALSE]
         /\ UNCHANGED ss_cctx

\* The arguments the calls are tried with, and the numbers of bytes a native
\* call is followed to produce.
Sizes == {0, 1}
Positions == (0 - 1)..(MaxCount + 1)
Whences == {"SEEK_SET", "SEEK_CUR", "SEEK_END"}
Produced == 0..1

\* ---- c-ext/compressionwriter.c
CompressionWriter_enter(s) ==
    /\ Is(s, "cwriter")
    /\ IF ss_sessions[s].entered
       THEN Refused(s, "enter")
       ELSE EnterOnCCtx(s, "enter") /\ UNCHANGED <<ss_dctx, ss_handles, ss_crashed>>

\* write(data); the native engine hands out produced bytes of output
CompressionWriter_write(s) ==
    /\ Is(s, "cwriter")
    /\ IF ~ss_sessions[s].entered
       THEN Refused(s, "write")
       ELSE \E produced \in Produced :
            /\ ss_cctx' = [stage |-> "open", users |-> ss_cctx.users \cup {s}]
            /\ ss_sessions' = [ss_sessions EXCEPT ![s].count =
                                    Min(@ + produced, MaxCount)]
            /\ ss_step' = [id |-> s, op |-> "write", result |-> "ok",
                           native |-> TRUE, collab |-> produced > 0]
            /\ UNCHANGED <<ss_dctx, ss_handles, ss_crashed>>

CompressionWriter_flush(s) ==
    /\ Is(s, "cwriter")
    /\ IF ~ss_sessions[s].entered
       THEN Refused(s, "flush")
       ELSE \E produced \in Produced :
            /\ ss_cctx' = [stage |-> "open", users |-> ss_cctx.users \cup {s}]
            /\ ss_sessions' = [ss_sessions EXCEPT ![s].count =
                                    Min(@ + produced, MaxCount)]
            /\ ss_step' = [id |-> s, op |-> "flush", result |-> "ok",
                           native |-> TRUE, collab |-> produced > 0]
            /\ UNCHANGED <<ss_dctx, ss_handles, ss_crashed>>

CompressionWriter_exit(s, exception) ==
    /\ Is(s, "cwriter")
    /\ ss_sessions' = [ss_sessions EXCEPT ![s].entered = FALSE]
    /\ IF exception
       THEN /\ ss_step' = Returned(s, "exit", "ok")
            /\ UNCHANGED ss_cctx
       ELSE \* the frame is ended and its last bytes go to the destination
            /\ ss_cctx' = [stage |-> "init", users |-> {}]
            /\ ss_step' = [id |-> s, op |-> "exit", result |-> "ok",
                           native |-> TRUE, collab |-> TRUE]
    /\ UNCHANGED <<ss_dctx, ss_handles, ss_crashed>>

\* ---- c-ext/compressionreader.c
CompressionReader_enter(s) ==
    /\ Is(s, "creader")
    /\ IF ss_sessions[s].entered
       THEN Refused(s, "enter")
       ELSE IF ss_sessions[s].cleared
       THEN \* self->compressor is NULL: the read of its cctx is undefined
            \/ /\ ss_crashed' = TRUE
               /\ ss_step' = Returned(s, "enter", "crash")
               /\ UNCHANGED <<ss_sessions, ss_cctx, ss_dctx, ss_handles>>
            \/ /\ ss_sessions' = [ss_sessions EXCEPT ![s].entered = TRUE]
               /\ ss_step' = Returned(s, "enter", "ok")
               /\ UNCHANGED <<ss_cctx, ss_dctx, ss_handles, ss_crashed>>
       ELSE EnterOnCCtx(s, "enter") /\ UNCHANGED <<ss_dctx, ss_handles, ss_crashed>>

CompressionReader_exit(s) ==
    /\ Is(s, "creader")
    /\ ss_sessions' = [ss_sessions EXCEPT ![s].entered = FALSE, ![s].closed = TRUE,
                                          ![s].cleared = TRUE]
    /\ ss_step' = Returned(s, "exit", "ok")
    /\ UNCHANGED <<ss_cctx, ss_dctx, ss_handles, ss_crashed>>

CompressionReader_close(s) ==
    /\ Is(s, "creader")
    /\ ss_sessions' = [ss_sessions EXCEPT ![s].closed = TRUE]
    /\ ss_step' = Returned(s, "close", "ok")
    /\ UNCHANGED <<ss_cctx, ss_dctx, ss_handles, ss_crashed>>

\* read(size); produced bytes of output come out, sourceRead tells whether the
\* source was read, ended whether the frame was ended in this call
CompressionReader_read(s, size) ==
    /\ Is(s, "creader")
    /\ IF ~ss_sessions[s].entered THEN Refused(s, "read")
       ELSE IF ss_sessions[s].closed THEN Refused(s, "read")
       ELSE IF ss_sessions[s].finished
       THEN /\ ss_step' = Returned(s, "read", "ok")
            /\ UNCHANGED <<ss_sessions, ss_cctx, ss_dctx, ss_handles, ss_crashed>>
       ELSE IF size < 1 THEN BadArgument(s, "read")
       ELSE \E produced \in Produced, sourceRead \in BOOLEAN, ended \in BOOLEAN :
            /\ produced <= size
            /\ ss_cctx' = IF ended THEN [stage |-> "init", users |-> {}]
                          ELSE [stage |-> "open", users |-> ss_cctx.users \cup {s}]
            /\ ss_sessions' = [ss_sessions EXCEPT
                                  ![s].count = Min(@ + produced, MaxCount),
                                  ![s].finished = ended]
            /\ ss_step' = [id |-> s, op |-> "read", result |-> "ok",
                           native |-> TRUE, collab |-> sourceRead]
            /\ UNCHANGED <<ss_dctx, ss_handles, ss_crashed>>

\* ---- c-ext/decompressionreader.c
\* reader_enter; ensure_dctx(self->decompressor, 1) readies the shared dctx for
\* a new frame, or fails
DecompressionReader_enter(s) ==
    /\ Is(s, "dreader")
    /\ IF ss_sessions[s].entered
       THEN Refused(s, "enter")
       ELSE IF ss_sessions[s].cleared
       THEN \* self->decompressor is NULL: what ensure_dctx does with it is undefined
            \/ /\ ss_crashed' = TRUE
               /\ ss_step' = Returned(s, "enter", "crash")
               /\ UNCHANGED <<ss_sessions, ss_cctx, ss_dctx, ss_handles>>
            \/ /\ ss_sessions' = [ss_sessions EXCEPT ![s].entered = TRUE]
               /\ ss_step' = Returned(s, "enter", "ok")
               /\ UNCHANGED <<ss_cctx, ss_dctx, ss_handles, ss_crashed>>
       ELSE \/ /\ ss_step' = [id |-> s, op |-> "enter", result |-> "native",
                              native |-> TRUE, collab |-> FALSE]
               /\ UNCHANGED <<ss_sessions, ss_cctx, ss_dctx, ss_handles, ss_crashed>>
            \/ /\ ss_dctx' = [users |-> {}]
               /\ ss_sessions' = [ss_sessions EXCEPT ![s].entered = TRUE]
               /\ ss_step' = [id |-> s, op |-> "enter", result |-> "ok",
                              native |-> TRUE, collab |-> FALSE]
               /\ UNCHANGED <<ss_cctx, ss_handles, ss_crashed>>

DecompressionReader_exit(s) ==
    /\ Is(s, "dreader")
    /\ ss_sessions' = [ss_sessions EXCEPT ![s].entered = FALSE, ![s].closed = TRUE,
                                          ![s].cleared = TRUE]
    /\ ss_step' = Returned(s, "exit", "ok")
    /\ UNCHANGED <<ss_cctx, ss_dctx, ss_handles, ss_crashed>>

DecompressionReader_close(s) ==
    /\ Is(s, "dreader")
    /\ ss_sessions' = [ss_sessions EXCEPT ![s].closed = TRUE]
    /\ ss_step' = Returned(s, "close", "ok")
    /\ UNCHANGED <<ss_cctx, ss_dctx, ss_handles, ss_crashed>>

\* What reading does to an entered, open, unfinished decompression reader:
\* produced bytes come out, sourceRead tells whether the source was read,
\* ended whether the end of the frame was reached.
ReadFromDCtx(s, op, produced, sourceRead, ended) ==
    /\ ss_dctx' = [users |-> ss_dctx.users \cup {s}]
    /\ ss_sessions' = [ss_sessions EXCEPT
                          ![s].count = Min(@ + produced, MaxCount),
                          ![s].finished = ended]
    /\ ss_step' = [id |-> s, op |-> op, result |-> "ok",
                   native |-> TRUE, collab |-> sourceRead]
    /\ UNCHANGED <<ss_cctx, ss_handles, ss_crashed>>

\* DecompressionReader_read with the closed test left out.
DecompressionReader_read_NoClosedTest(s, size) ==
    /\ Is(s, "dreader")
    /\ IF ~ss_sessions[s].entered THEN Refused(s, "read")
       ELSE IF ss_sessions[s].finished
       THEN /\ ss_step' = Returned(s, "read", "ok")
            /\ UNCHANGED <<ss_sessions, ss_cctx, ss_dctx, ss_handles, ss_crashed>>
       ELSE IF size < 1 THEN BadArgument(s, "read")
       ELSE \E produced \in Produced, sourceRead \in BOOLEAN, ended \in BOOLEAN :
            produced <= size /\ ReadFromDCtx(s, "read", produced, sourceRead, ended)

DecompressionReader_read(s, size) ==
    /\ Is(s, "dreader")
    /\ IF ~ss_sessions[s].entered THEN Refused(s, "read")
       ELSE IF ss_sessions[s].closed THEN Refused(s, "read")
       ELSE IF ss_sessions[s].finished
       THEN /\ ss_step' = Returned(s, "read", "ok")
            /\ UNCHANGED <<ss_sessions, ss_cctx, ss_dctx, ss_handles, ss_crashed>>
       ELSE IF size < 1 THEN BadArgument(s, "read")
       ELSE \E produced \in Produced, sourceRead \in BOOLEAN, ended \in BOOLEAN :
            produced <= size /\ ReadFromDCtx(s, "read", produced, sourceRead, ended)

\* seek(pos, whence); the bytes to skip are read with read()
DecompressionReader_seek(s, pos, whence) ==
    /\ Is(s, "dreader")
    /\ IF ~ss_sessions[s].entered THEN Refused(s, "seek")
       ELSE IF ss_sessions[s].closed THEN Refused(s, "seek")
       ELSE IF whence = "SEEK_END" THEN BadArgument(s, "seek")
       ELSE IF pos < 0 THEN BadArgument(s, "seek")
       ELSE IF whence = "SEEK_SET" /\ pos < ss_sessions[s].count
       THEN BadArgument(s, "seek")
       ELSE LET readAmount == IF whence = "SEEK_SET"
                              THEN pos - ss_sessions[s].count
                              ELSE pos
            IN  IF readAmount = 0 \/ ss_sessions[s].finished
                THEN /\ ss_step' = Returned(s, "seek", "ok")
                     /\ UNCHANGED <<ss_sessions, ss_cctx, ss_dctx, ss_handles,
                                    ss_crashed>>
                ELSE \E produced \in Produced, sourceRead \in BOOLEAN,
                        ended \in BOOLEAN :
                     /\ produced <= readAmount
                     /\ (produced < readAmount => ended)
                     /\ ReadFromDCtx(s, "seek", produced, sourceRead, ended)

\* ---- zstd.c: the writers that own a native stream
\* ZSTD_createCStream / ZSTD_createDStream: the handle not used before
FreshHandle == CHOOSE h \in Handles : ss_handles[h] = "unused" /\
                                      \A g \in Handles : g < h => ss_handles[g] # "unused"

\* ZSTD_freeCStream / ZSTD_freeDStream of handle h
FreeHandle(handles, h) ==
    [handles EXCEPT ![h] = IF @ = "live" THEN "freed" ELSE "freed twice"]

\* ZstdCompressionWriter_enter of zstd.c; CStream_from_ZstdCompressor creates
\* and initialises a stream, or fails at either
CStreamWriter_enter(s) ==
    /\ Is(s, "zcwriter")
    /\ IF ss_sessions[s].entered
       THEN Refused(s, "enter")
       ELSE \E created \in BOOLEAN, initialised \in BOOLEAN :
            /\ \E h \in Handles : ss_handles[h] = "unused"
            /\ IF ~created
               THEN /\ ss_sessions' = [ss_sessions EXCEPT ![s].stream = 0]
                    /\ ss_step' = [id |-> s, op |-> "enter", result |-> "native",
                                   native |-> TRUE, collab |-> FALSE]
                    /\ UNCHANGED ss_handles
               ELSE IF ~initialised
               THEN \* the stream is freed and NULL is stored
                    /\ ss_handles' = [ss_handles EXCEPT ![FreshHandle] = "freed"]
                    /\ ss_sessions' = [ss_sessions EXCEPT ![s].stream = 0]
                    /\ ss_step' = [id |-> s, op |-> "enter", result |-> "native",
                                   native |-> TRUE, collab |-> FALSE]
               ELSE /\ ss_handles' = [ss_handles EXCEPT ![FreshHandle] = "live"]
                    /\ ss_sessions' = [ss_sessions EXCEPT ![s].stream = FreshHandle,
                                                          ![s].entered = TRUE]
                    /\ ss_step' = [id |-> s, op |-> "enter", result |-> "ok",
                                   native |-> TRUE, collab |-> FALSE]
            /\ UNCHANGED <<ss_cctx, ss_dctx, ss_crashed>>

\* ZstdCompressionWriter_exit of zstd.c; the loop that ends the frame stops at
\* a native error or comes through
CStreamWriter_exit(s, exception) ==
    /\ Is(s, "zcwriter")
    /\ IF ss_sessions[s].stream # 0 /\ ~exception
       THEN \/ /\ ss_sessions' = [ss_sessions EXCEPT ![s].entered = FALSE]
               /\ ss_step' = [id |-> s, op |-> "exit", result |-> "native",
                              native |-> TRUE, collab |-> FALSE]
               /\ UNCHANGED ss_handles
            \/ /\ ss_handles' = FreeHandle(ss_handles, ss_sessions[s].stream)
               /\ ss_sessions' = [ss_sessions EXCEPT ![s].entered = FALSE,
                                                     ![s].stream = 0]
               /\ ss_step' = [id |-> s, op |-> "exit", result |-> "ok",
                              native |-> TRUE, collab |-> TRUE]
       ELSE /\ ss_sessions' = [ss_sessions EXCEPT ![s].entered = FALSE]
            /\ ss_step' = Returned(s, "exit", "ok")
            /\ UNCHANGED ss_handles
    /\ UNCHANGED <<ss_cctx, ss_dctx, ss_crashed>>

\* ZstdCompressionWriter_write of zstd.c
CStreamWriter_write(s) ==
    /\ Is(s, "zcwriter")
    /\ IF ~ss_sessions[s].entered
       THEN Refused(s, "write")
       ELSE \E produced \in Produced :
            /\ ss_step' = [id |-> s, op |-> "write", result |-> "ok",
                           native |-> TRUE, collab |-> produced > 0]
            /\ UNCHANGED <<ss_sessions, ss_cctx, ss_dctx, ss_handles, ss_crashed>>

\* ZstdCompressionWriter_dealloc of zstd.c
CStreamWriter_dealloc(s) ==
    /\ Is(s, "zcwriter")
    /\ ss_handles' = IF ss_sessions[s].stream # 0
                     THEN FreeHandle(ss_handles, ss_sessions[s].stream)
                     ELSE ss_handles
    /\ ss_sessions' = [ss_sessions EXCEPT ![s] = [NoSession EXCEPT !.kind = "gone"]]
    /\ ss_step' = Returned(s, "dealloc", "ok")
    /\ UNCHANGED <<ss_cctx, ss_dctx, ss_crashed>>

\* ZstdDecompressionWriter_enter with the entered test left out.
ZstdDecompressionWriter_enter_NoEnteredTest(s) ==
    /\ Is(s, "zdwriter")
    /\ \E h \in Handles : ss_handles[h] = "unused"
    /\ ss_handles' = [ss_handles EXCEPT ![FreshHandle] = "live"]
    /\ ss_sessions' = [ss_sessions EXCEPT ![s].stream = FreshHandle,
                                          ![s].entered = TRUE]
    /\ ss_step' = [id |-> s, op |-> "enter", result |-> "ok",
                   native |-> TRUE, collab |-> FALSE]
    /\ UNCHANGED <<ss_cctx, ss_dctx, ss_crashed>>

\* ZstdDecompressionWriter_enter; DStream_from_ZstdDecompressor creates and
\* initialises a stream, or fails at either
ZstdDecompressionWriter_enter(s) ==
    /\ Is(s, "zdwriter")
    /\ IF ss_sessions[s].entered
       THEN Refused(s, "enter")
       ELSE \E created \in BOOLEAN, initialised \in BOOLEAN :
            /\ \E h \in Handles : ss_handles[h] = "unused"
            /\ IF ~created
               THEN /\ ss_sessions' = [ss_sessions EXCEPT ![s].stream = 0]
                    /\ ss_step' = [id |-> s, op |-> "enter", result |-> "native",
                                   native |-> TRUE, collab |-> FALSE]
                    /\ UNCHANGED ss_handles
               ELSE IF ~initialised
               THEN \* NULL is returned and stored; the stream is not freed
                    /\ ss_handles' = [ss_handles EXCEPT ![FreshHandle] = "live"]
                    /\ ss_sessions' = [ss_sessions EXCEPT ![s].stream = 0]
                    /\ ss_step' = [id |-> s, op |-> "enter", result |-> "native",
                                   native |-> TRUE, collab |-> FALSE]
               ELSE /\ ss_handles' = [ss_handles EXCEPT ![FreshHandle] = "live"]
                    /\ ss_sessions' = [ss_sessions EXCEPT ![s].stream = FreshHandle,
                                                          ![s].entered = TRUE]
                    /\ ss_step' = [id |-> s, op |-> "enter", result |-> "ok",
                                   native |-> TRUE, collab |-> FALSE]
            /\ UNCHANGED <<ss_cctx, ss_dctx, ss_crashed>>

ZstdDecompressionWriter_exit(s) ==
    /\ Is(s, "zdwriter")
    /\ ss_handles' = IF ss_sessions[s].stream # 0
                     THEN FreeHandle(ss_handles, ss_sessions[s].stream)
                     ELSE ss_handles
    /\ ss_sessions' = [ss_sessions EXCEPT ![s].entered = FALSE, ![s].stream = 0]
    /\ ss_step' = [id |-> s, op |-> "exit", result |-> "ok",
                   native |-> ss_sessions[s].stream # 0, collab |-> FALSE]
    /\ UNCHANGED <<ss_cctx, ss_dctx, ss_crashed>>

ZstdDecompressionWriter_write(s) ==
    /\ Is(s, "zdwriter")
    /\ IF ~ss_sessions[s].entered
       THEN Refused(s, "write")
       ELSE \E produced \in Produced :
            /\ ss_step' = [id |-> s, op |-> "write", result |-> "ok",
                           native |-> TRUE, collab |-> produced > 0]
            /\ UNCHANGED <<ss_sessions, ss_cctx, ss_dctx, ss_handles, ss_crashed>>

ZstdDecompressionWriter_dealloc(s) ==
    /\ Is(s, "zdwriter")
    /\ ss_handles' = IF ss_sessions[s].stream # 0
                     THEN FreeHandle(ss_handles, ss_sessions[s].stream)
                     ELSE ss_handles
    /\ ss_sessions' = [ss_sessions EXCEPT ![s] = [NoSession EXCEPT !.kind = "gone"]]
    /\ ss_step' = Returned(s, "dealloc", "ok")
    /\ UNCHANGED <<ss_cctx, ss_dctx, ss_crashed>>

SessionNext ==
    \/ \E s \in Ids, kind \in Kinds : NewSession(s, kind) /\ UNCHANGED exceptSession
    \/ \E s \in Ids : CompressionWriter_enter(s) /\ UNCHANGED exceptSession
    \/ \E s \in Ids : CompressionWriter_write(s) /\ UNCHANGED exceptSession
    \/ \E s \in Ids : CompressionWriter_flush(s) /\ UNCHANGED exceptSession
    \/ \E s \in Ids, exception \in BOOLEAN :
            CompressionWriter_exit(s, exception) /\ UNCHANGED exceptSession
    \/ \E s \in Ids : CompressionReader_enter(s) /\ UNCHANGED exceptSession
    \/ \E s \in Ids : CompressionReader_exit(s) /\ UNCHANGED exceptSession
    \/ \E s \in Ids : CompressionReader_close(s) /\ UNCHANGED exceptSession
    \/ \E s \in Ids, size \in Sizes :
            CompressionReader_read(s, size) /\ UNCHANGED exceptSession
    \/ \E s \in Ids : DecompressionReader_enter(s) /\ UNCHANGED exceptSession
    \/ \E s \in Ids : DecompressionReader_exit(s) /\ UNCHANGED exceptSession
    \/ \E s \in Ids : DecompressionReader_close(s) /\ UNCHANGED exceptSession
    \/ \E s \in Ids, size \in Sizes :
            DecompressionReader_read(s, size) /\ UNCHANGED exceptSession
    \/ \E s \in Ids, pos \in Positions, whence \in Whences :
            DecompressionReader_seek(s, pos, whence) /\ UNCHANGED exceptSession
    \/ \E s \in Ids : CStreamWriter_enter(s) /\ UNCHANGED exceptSession
    \/ \E s \in Ids, exception \in BOOLEAN :
            CStreamWriter_exit(s, exception) /\ UNCHANGED exceptSession
    \/ \E s \in Ids : CStreamWriter_write(s) /\ UNCHANGED exceptSession
    \/ \E s \in Ids : CStreamWriter_dealloc(s) /\ UNCHANGED exceptSession
    \/ \E s \in Ids : ZstdDecompressionWriter_enter(s) /\ UNCHANGED exceptSession
    \/ \E s \in Ids : ZstdDecompressionWriter_exit(s) /\ UNCHANGED exceptSession
    \/ \E s \in Ids : ZstdDecompressionWriter_write(s) /\ UNCHANGED exceptSession
    \/ \E s \in Ids : ZstdDecompressionWriter_dealloc(s) /\ UNCHANGED exceptSession

\* Whether session s is entered and not closed.
Active(s) == ss_sessions[s].entered /\ ~ss_sessions[s].closed

\* The step made no native call and no call on a collaborator, returned a
\* state error and left every session, context and handle as it was.
StepRefused ==
    /\ ss_step'.result = "state"
    /\ ~ss_step'.native
    /\ ~ss_step'.collab
    /\ UNCHANGED <<ss_sessions, ss_cctx, ss_dctx, ss_handles, ss_crashed>>

\* C7: write, flush, read and seek are accepted only on a session that is
\* entered and not closed; on any other session they fail with a state error,
\* make no native call and no collaborator call, and change no counter or flag.
C7_RefusedOutsideSession ==
    [][ (ss_step'.op \in {"write", "flush", "read", "seek"} /\ ~Active(ss_step'.id))
            => StepRefused ]_vars

\* A read was refused on a decompression reader that is entered, closed with
\* close(), and had given bytes before.
C7_Witness ==
    /\ ss_step.op = "read"
    /\ ss_step.result = "state"
    /\ ss_sessions[ss_step.id].kind = "dreader"
    /\ ss_sessions[ss_step.id].entered
    /\ ss_sessions[ss_step.id].closed
    /\ ss_sessions[ss_step.id].count > 0

\* C8: enter on a session that is entered fails with a state error, makes no
\* native call and leaves the entered flag, the native handle and the counters
\* as they were, whatever the kind of the session.
C8_EnterTwiceRefused ==
    [][ (ss_step'.op = "enter" /\ ss_sessions[ss_step'.id].entered)
            => StepRefused ]_vars

\* An enter was refused on a decompression writer that holds a live stream.
C8_Witness ==
    /\ ss_step.op = "enter"
    /\ ss_step.result = "state"
    /\ ss_sessions[ss_step.id].kind = "zdwriter"
    /\ ss_sessions[ss_step.id].entered
    /\ ss_sessions[ss_step.id].stream # 0
    /\ ss_handles[ss_sessions[ss_step.id].stream] = "live"

\* C35: a stream reader that was exited or closed never becomes active again:
\* enter on it fails with a state error and makes no native call, and its
\* entered flag stays down.
C35_ClosedReaderNeverReenters ==
    [][\A s \in Ids :
          (ss_sessions[s].kind \in {"creader", "dreader"} /\ ss_sessions[s].closed)
             => /\ (ss_step'.op = "enter" /\ ss_step'.id = s) => StepRefused
                /\ ~ss_sessions[s].entered => ~ss_sessions'[s].entered]_vars

\* C9: the calls made on a native context inside one frame all come from one
\* session: two sessions never interleave calls on the same context.
C9_NoInterleavedSessions ==
    /\ Cardinality(ss_cctx.users) <= 1
    /\ Cardinality(ss_dctx.users) <= 1

\* C10: every native stream handle that was created and not yet released is
\* the one handle of a session that still exists, no two sessions hold the same
\* handle, and no handle is released twice.
C10_HandleLifecycle ==
    /\ \A h \in Handles :
          /\ ss_handles[h] = "live" =>
                \E s \in Ids : ss_sessions[s].stream = h
          /\ ss_handles[h] # "freed twice"
    /\ \A s \in Ids : ss_sessions[s].stream # 0 =>
          /\ ss_handles[ss_sessions[s].stream] = "live"
          /\ \A t \in Ids \ {s} : ss_sessions[t].stream # ss_sessions[s].stream

(***************************************************************************)
(* ZstdDecompressionReader (c-ext/decompressionreader.c), byte by byte:    *)
(* one reader over a readable that hands out its bytes in pieces, or over  *)
(* a buffer.  A read(readSize) of the readable fails, or returns readSize   *)
(* bytes, or what bytes it has left when they are fewer.                   *)
(***************************************************************************)
NoReaderCall == [op |-> "none", result |-> "none", size |-> 0, whence |-> "none",
                 len |-> 0, reads |-> FALSE, calls |-> FALSE]

NewReader(mode, readSize) ==
    [mode |-> mode, readSize |-> readSize, entered |-> FALSE, closed |-> FALSE,
     cleared |-> FALSE, dctx |-> NewDStream, input |-> <<>>, ipos |-> 0,
     finishedInput |-> FALSE, finishedOutput |-> FALSE, bytesDecompressed |-> 0]

ReaderInit ==
    /\ rd_life = "none"
    /\ rd_src = [data |-> <<>>, pos |-> 0, eof |-> FALSE]
    /\ rd_self = NewReader("reader", 1)
    /\ rd_out = <<>>
    /\ rd_raised = FALSE
    /\ rd_fed = <<>>
    /\ rd_last = NoReaderCall

\* stream_reader(source, read_size): the reader of a readable (mode "reader")
\* or of a buffer (mode "buffer") that holds data
Reader_stream_reader(mode, data, readSize) ==
    /\ rd_life = "none"
    /\ rd_life' = "made"
    /\ rd_src' = [data |-> data, pos |-> 0, eof |-> FALSE]
    /\ rd_self' = NewReader(mode, readSize)
    /\ UNCHANGED <<rd_out, rd_raised, rd_fed, rd_last>>

\* How a method ends: result "ok", or what it raised; len the bytes it
\* returned.
ReaderReturn(op, result, size, len, reads, calls) ==
    rd_last' = [op |-> op, result |-> result, size |-> size, whence |-> "none",
                len |-> len, reads |-> reads > 0, calls |-> calls > 0]

reader_enter ==
    /\ rd_life = "made"
    /\ IF rd_self.entered
       THEN /\ ReaderReturn("enter", "ValueError", 0, 0, 0, 0)
            /\ UNCHANGED <<rd_life, rd_src, rd_self, rd_out, rd_raised, rd_fed>>
       ELSE IF rd_self.cleared
       THEN \* self->decompressor is NULL: what ensure_dctx does with it is undefined
            \/ /\ rd_life' = "crashed"
               /\ ReaderReturn("enter", "crash", 0, 0, 0, 0)
               /\ UNCHANGED <<rd_src, rd_self, rd_out, rd_raised, rd_fed>>
            \/ /\ rd_self' = [rd_self EXCEPT !.entered = TRUE]
               /\ ReaderReturn("enter", "ok", 0, 0, 0, 0)
               /\ UNCHANGED <<rd_life, rd_src, rd_out, rd_raised, rd_fed>>
       ELSE /\ rd_self' = [rd_self EXCEPT !.entered = TRUE, !.dctx = NewDStream]
            /\ ReaderReturn("enter", "ok", 0, 0, 0, 1)
            /\ UNCHANGED <<rd_life, rd_src, rd_out, rd_raised, rd_fed>>

reader_exit ==
    /\ rd_life = "made"
    /\ rd_self' = [rd_self EXCEPT !.entered = FALSE, !.closed = TRUE,
                                  !.cleared = TRUE]
    /\ ReaderReturn("exit", "ok", 0, 0, 0, 0)
    /\ UNCHANGED <<rd_life, rd_src, rd_out, rd_raised, rd_fed>>

reader_close ==
    /\ rd_life = "made"
    /\ rd_self' = [rd_self EXCEPT !.closed = TRUE]
    /\ ReaderReturn("close", "ok", 0, 0, 0, 0)
    /\ UNCHANGED <<rd_life, rd_src, rd_out, rd_raised, rd_fed>>

\* reader_tell
reader_tell(self) == self.bytesDecompressed

\* A read() under way: the reader, its source, the bytes in the result so
\* far (output.pos of them), and the upstream reads and native calls made.
ReaderRun(self, src) ==
    [self |-> self, src |-> src, out |-> <<>>, reads |-> 0, calls |-> 0, fed |-> <<>>]

\* A way a read() can end: "ok" (it returns r.out), what it raises, or
\* "hang" when its loop never ends.
ReaderEnd(r, result) == [r |-> r, result |-> result]

\* ZSTD_decompress_generic(dctx, &output, &input)
ZSTD_decompress_generic(dctx, input, pos, room) ==
    ZSTD_decompressStream(dctx, input, pos, room)

\* The read that takes the output for full at once.
ReadIsFull_Always(pos, size) == TRUE

\* if (output.pos && output.pos == output.size): the request is fulfilled
ReadIsFull(pos, size) == pos # 0 /\ pos = size

RECURSIVE reader_readinput(_, _)

\* reader_read from the test of input.size after the pull on
reader_read_tail(r, size) ==
    IF Len(r.self.input) # 0 THEN reader_readinput(r, size)
    ELSE {ReaderEnd([r EXCEPT !.self.bytesDecompressed = @ + Len(r.out)], "ok")}

\* reader_read after a read(readSize) of the readable that gave n bytes
reader_read_pulled(r, size, n) ==
    LET src1 == [r.src EXCEPT !.pos = @ + n, !.eof = @ \/ n = 0]
        self1 == IF n = 0 THEN [r.self EXCEPT !.finishedInput = TRUE]
                 ELSE [r.self EXCEPT !.input = SubSeq(r.src.data, r.src.pos + 1,
                                                      r.src.pos + n),
                                     !.ipos = 0]
    IN  reader_read_tail([r EXCEPT !.self = self1, !.src = src1, !.reads = @ + 1],
                         size)

\* Whether reader_read, about to hand the whole buffer to the decoder once
\* more, is where it was the time before: its loop then never ends.
ReaderLoopsForever(r, size) ==
    /\ r.self.input # <<>>
    /\ LET z == ZSTD_decompress_generic(r.self.dctx, r.src.data, 0, size - Len(r.out))
       IN  ~z.isError /\ z.out = <<>> /\ z.pos = r.self.ipos /\ z.dstream = r.self.dctx

\* reader_read from if (!self->finishedInput) on
reader_read_pull(r, size) ==
    IF r.self.finishedInput THEN reader_read_tail(r, size)
    ELSE IF r.self.mode = "reader"
    THEN {ReaderEnd([r EXCEPT !.reads = @ + 1], "error")}
         \cup reader_read_pulled(r, size,
                                 Min(r.self.readSize, Len(r.src.data) - r.src.pos))
    ELSE IF ReaderLoopsForever(r, size) THEN {ReaderEnd(r, "hang")}
    ELSE reader_read_tail([r EXCEPT !.self.input = r.src.data, !.self.ipos = 0,
                                    !.src.pos = Len(r.src.data)], size)

\* reader_read from the label readinput on: the ways it can end
reader_readinput(r, size) ==
    IF r.self.ipos < Len(r.self.input)
    THEN LET z == ZSTD_decompress_generic(r.self.dctx, r.self.input, r.self.ipos,
                                          size - Len(r.out))
             exhausted == z.pos = Len(r.self.input)
             self1 == [r.self EXCEPT
                          !.dctx = z.dstream,
                          !.input = IF exhausted THEN <<>> ELSE @,
                          !.ipos = IF exhausted THEN 0 ELSE z.pos,
                          !.finishedInput =
                              IF exhausted /\ r.self.mode = "buffer" THEN TRUE ELSE @]
             r1 == [r EXCEPT !.self = self1, !.calls = @ + 1,
                             !.fed = @ \o SubSeq(r.self.input, r.self.ipos + 1, z.pos)]
             r2 == [r1 EXCEPT !.out = @ \o z.out,
                              !.self.finishedOutput =
                                  IF z.zresult = 0 THEN TRUE ELSE @]
         IN  IF z.isError THEN {ReaderEnd(r1, "ZstdError")}
             ELSE IF ReadIsFull(Len(r2.out), size)
             THEN {ReaderEnd([r2 EXCEPT !.self.bytesDecompressed = @ + size], "ok")}
             ELSE reader_read_pull(r2, size)
    ELSE reader_read_pull(r, size)

\* reader_read(size) on the reader self over src: the ways it can end
reader_read_ends(self, src, size) ==
    IF ~self.entered THEN {ReaderEnd(ReaderRun(self, src), "ZstdError")}
    ELSE IF self.closed THEN {ReaderEnd(ReaderRun(self, src), "ValueError")}
    ELSE IF self.finishedOutput THEN {ReaderEnd(ReaderRun(self, src), "ok")}
    ELSE IF size < 1 THEN {ReaderEnd(ReaderRun(self, src), "ValueError")}
    ELSE reader_readinput(ReaderRun(self, src), size)

\* What a method leaves behind that ended as e did.
ReaderLeaves(e) ==
    /\ rd_self' = e.r.self
    /\ rd_src' = e.r.src
    /\ rd_out' = IF e.result = "ok" THEN rd_out \o e.r.out ELSE rd_out
    /\ rd_life' = IF e.result = "hang" THEN "crashed" ELSE rd_life
    /\ rd_raised' = (rd_raised \/ (e.result # "ok" /\ (e.r.reads > 0 \/ e.r.calls > 0)))
    /\ rd_fed' = rd_fed \o e.r.fed

reader_read(size) ==
    /\ rd_life = "made"
    /\ \E e \in reader_read_ends(rd_self, rd_src, size) :
          /\ ReaderLeaves(e)
          /\ ReaderReturn("read", e.result, size,
                          IF e.result = "ok" THEN Len(e.r.out) ELSE 0,
                          e.r.reads, e.r.calls)

\* The seek that takes every position.
SeekRefused_Never(pos, whence, bytesDecompressed) == FALSE

\* reader_seek: the positions it raises ValueError for
SeekRefused(pos, whence, bytesDecompressed) ==
    \/ whence = "SEEK_SET" /\ (pos < 0 \/ pos < bytesDecompressed)
    \/ whence = "SEEK_CUR" /\ pos < 0
    \/ whence = "SEEK_END"

RECURSIVE reader_seek_loop(_, _)
\* while (readAmount): r.out the bytes its read() calls have returned
reader_seek_loop(r, readAmount) ==
    IF readAmount = 0 THEN {ReaderEnd(r, "ok")}
    ELSE UNION {LET r1 == [e.r EXCEPT !.out = r.out \o @, !.reads = r.reads + @,
                                      !.calls = r.calls + @, !.fed = r.fed \o @]
                IN  IF e.result # "ok" THEN {ReaderEnd([r1 EXCEPT !.out = r.out],
                                                       e.result)}
                    ELSE IF Len(e.r.out) = 0 THEN {ReaderEnd(r1, "ok")}
                    ELSE reader_seek_loop(r1, readAmount - Len(e.r.out)) :
                e \in reader_read_ends(r.self, r.src,
                                       Min(readAmount, ZSTD_DStreamOutSize))}

\* reader_seek(pos, whence): the ways it can end
reader_seek_ends(self, src, pos, whence) ==
    IF ~self.entered THEN {ReaderEnd(ReaderRun(self, src), "ZstdError")}
    ELSE IF self.closed THEN {ReaderEnd(ReaderRun(self, src), "ValueError")}
    ELSE IF SeekRefused(pos, whence, self.bytesDecompressed)
    THEN {ReaderEnd(ReaderRun(self, src), "ValueError")}
    ELSE reader_seek_loop(ReaderRun(self, src),
                          IF whence = "SEEK_SET" THEN pos - self.bytesDecompressed
                          ELSE pos)

\* reader_seek; its result, when it has one, is tell()
reader_seek(pos, whence) ==
    /\ rd_life = "made"
    /\ \E e \in reader_seek_ends(rd_self, rd_src, pos, whence) :
          /\ ReaderLeaves(e)
          /\ rd_last' = [op |-> "seek", result |-> e.result, size |-> pos,
                          whence |-> whence,
                          len |-> IF e.result = "ok" THEN reader_tell(e.r.self) ELSE 0,
                          reads |-> e.r.reads > 0, calls |-> e.r.calls > 0]

\* The frame of the n bytes StepChunk(fed, n).
ReaderFrame(fed, n, flag, level) ==
    EncodeFrame(StepChunk(fed, n), flag, ZSTD_getCParams(level))

\* What the sources of the reader hold: a frame of at most MaxLen bytes (one
\* content of each length), whole, or without its last byte, or followed by
\* a second frame.
ReaderSources ==
    UNION {{ReaderFrame(0, n, TRUE, level), ReaderFrame(0, n, FALSE, level),
            Take(ReaderFrame(0, n, TRUE, level),
                 Len(ReaderFrame(0, n, TRUE, level)) - 1),
            ReaderFrame(0, n, FALSE, level) \o ReaderFrame(n, 1, FALSE, level)} :
               n \in 0..MaxLen, level \in 1..MaxCLevel}

\* The sizes read() is asked for, and the read_size of the reader.
ReadRequests == {0, 1, MaxLen - 1, MaxLen + 1}
ReaderReadSizes == {1, ZSTD_DStreamInSize}
SeekPositions == (0 - 1)..MaxLen

\* A method called on a reader that is not entered or is closed is refused
\* whatever its arguments: one call of each method stands for them.
ReaderOpen == rd_self.entered /\ ~rd_self.closed

ReaderNext ==
    \/ \E mode \in {"reader", "buffer"}, data \in ReaderSources,
          readSize \in ReaderReadSizes :
            Reader_stream_reader(mode, data, readSize) /\ UNCHANGED exceptReader
    \/ (reader_enter /\ UNCHANGED exceptReader)
    \/ (reader_exit /\ UNCHANGED exceptReader)
    \/ (reader_close /\ UNCHANGED exceptReader)
    \/ \E size \in IF ReaderOpen THEN ReadRequests ELSE {1} :
            reader_read(size) /\ UNCHANGED exceptReader
    \/ \E pos \in IF ReaderOpen THEN SeekPositions ELSE {0},
          whence \in IF ReaderOpen THEN Whences ELSE {"SEEK_SET"} :
            reader_seek(pos, whence) /\ UNCHANGED exceptReader

RECURSIVE ReaderDecoded(_, _)
\* What the decoder makes of data from pos on when it is given all of it at
\* once with room for all its output: the contents of the frames, one after
\* the other, as far as they can be decoded.
ReaderDecoded(data, pos) ==
    IF pos >= Len(data) THEN <<>>
    ELSE LET z == ZSTD_decompressStream(NewDStream, data, pos, Len(data))
         IN  IF z.isError THEN <<>>
             ELSE IF z.zresult = 0 /\ z.pos > pos
             THEN z.out \o ReaderDecoded(data, z.pos)
             ELSE z.out

\* The last method was a read(size), size >= 1, that returned bytes, and no
\* read() before it has failed in its loop.
ReadReturned ==
    /\ ~rd_raised
    /\ rd_last.op = "read" /\ rd_last.result = "ok" /\ rd_last.size >= 1

\* The source has nothing left to give and the reader nothing left to
\* decode or to hand out.
ReaderExhausted ==
    /\ rd_src.pos = Len(rd_src.data)
    /\ rd_self.ipos >= Len(rd_self.input)
    /\ rd_self.dctx.pending = <<>>

\* C16: a read(size) with size >= 1 of the decompression reader returns at
\* most size bytes; it returns fewer only when the source (readable or
\* buffer) is exhausted and nothing more comes out; and the bytes the reads
\* have returned, one after the other, are the decoder's output of the
\* source's bytes, in order, none lost and none repeated.
C16_ReadReturnsDecodedInOrder ==
    /\ ReadReturned => rd_last.len <= rd_last.size
    /\ ReadReturned /\ rd_last.len < rd_last.size => ReaderExhausted
    /\ ~rd_raised => rd_out = Take(ReaderDecoded(rd_src.data, 0), Len(rd_out))
    /\ ReadReturned /\ rd_last.len < rd_last.size =>
          rd_out = ReaderDecoded(rd_src.data, 0)

\* C17: on an entered, open decompression reader a seek to a position before
\* the current one (SEEK_SET with pos < tell(), SEEK_CUR with pos < 0) and
\* any seek with SEEK_END fail with an error, read nothing from the
\* upstream, make no native call, and leave tell() and the state of the
\* reader as they were.
C17_BackwardSeekRefused ==
    [][(/\ rd_last'.op = "seek"
        /\ rd_self.entered /\ ~rd_self.closed
        /\ \/ rd_last'.whence = "SEEK_SET" /\ rd_last'.size < reader_tell(rd_self)
           \/ rd_last'.whence = "SEEK_CUR" /\ rd_last'.size < 0
           \/ rd_last'.whence = "SEEK_END")
       => /\ rd_last'.result = "ValueError"
          /\ ~rd_last'.reads /\ ~rd_last'.calls
          /\ reader_tell(rd_self') = reader_tell(rd_self)
          /\ rd_self' = rd_self /\ rd_src' = rd_src /\ rd_out' = rd_out
          /\ rd_life' = rd_life]_vars

\* A reader that has returned bytes and then refused to seek back to a
\* position it had passed.
C17_Witness ==
    /\ rd_last.op = "seek" /\ rd_last.result = "ValueError"
    /\ rd_last.whence = "SEEK_SET"
    /\ rd_last.size >= 0 /\ rd_last.size < reader_tell(rd_self)
    /\ rd_self.entered /\ ~rd_self.closed
    /\ rd_out # <<>>

\* C24: a read(size) with size < 1 on a reader that is entered and not closed
\* is refused with a ValueError whatever the reader has done before, and it
\* reads nothing from the source and calls the native decoder not once.
C24_NonPositiveReadRefused ==
    [][(ReaderOpen /\ rd_last' # rd_last /\ rd_last'.op = "read"
                   /\ rd_last'.size < 1)
       => /\ rd_last'.result = "ValueError"
          /\ ~rd_last'.reads
          /\ ~rd_last'.calls]_vars

\* C34: what the native decoder has consumed is, at every moment, the bytes
\* of the source in order, each once: the fixed buffer is never fed again
\* from its start and no upstream read takes the place of unconsumed input.
C34_SourceDecodedOnceInOrder ==
    /\ Len(rd_fed) <= Len(rd_src.data)
    /\ rd_fed = Take(rd_src.data, Len(rd_fed))

\* Where a forward seek is meant to arrive.
SeekTarget(pos, whence, told) == IF whence = "SEEK_SET" THEN pos ELSE told + pos

\* C39: a forward seek on an entered reader (SEEK_SET to tell() or beyond,
\* SEEK_CUR by 0 or more) comes to an end, and when it returns it returns
\* tell(), which is then the smaller of the target position and the length
\* of the decompressed source.
C39_ForwardSeekArrives ==
    [][(/\ ReaderOpen /\ ~rd_raised
        /\ rd_last'.op = "seek"
        /\ \/ rd_last'.whence = "SEEK_SET" /\ rd_last'.size >= reader_tell(rd_self)
           \/ rd_last'.whence = "SEEK_CUR" /\ rd_last'.size >= 0)
       => /\ rd_last'.result # "hang"
          /\ rd_last'.result = "ok" =>
                /\ rd_last'.len = reader_tell(rd_self')
                /\ reader_tell(rd_self') =
                      Min(SeekTarget(rd_last'.size, rd_last'.whence, reader_tell(rd_self)),
                          Len(ReaderDecoded(rd_src.data, 0)))]_vars

(***************************************************************************)
(* ZstdDecompressor.copy_stream (c-ext/decompressor.c): the source is read *)
(* chunk by chunk until a read returns nothing, each chunk goes through    *)
(* ZSTD_decompressStream and what comes out goes to the destination.       *)
(***************************************************************************)
NoCopyResult == [kind |-> "none", read |-> 0, written |-> 0]

CopyInit ==
    /\ dc_pc = "none"
    /\ dc_cfg = [inSize |-> 1, outSize |-> 1]
    /\ dc_src = <<>>
    /\ dc_rpos = 0
    /\ dc_dstream = NewDStream
    /\ dc_input = <<>>
    /\ dc_pos = 0
    /\ dc_dest = <<>>
    /\ dc_totalRead = 0
    /\ dc_totalWrite = 0
    /\ dc_res = NoCopyResult

\* copy_stream up to its loop: the arguments are taken, the dstream and the
\* staging buffer of outSize bytes are made.
ZstdDecompressor_copy_stream(data, inSize, outSize) ==
    /\ dc_pc = "none"
    /\ dc_pc' = "read"
    /\ dc_cfg' = [inSize |-> inSize, outSize |-> outSize]
    /\ dc_src' = data
    /\ dc_dstream' = NewDStream
    /\ UNCHANGED <<dc_rpos, dc_input, dc_pos, dc_dest, dc_totalRead, dc_totalWrite,
                   dc_res>>

\* while (input.pos < input.size)
CopyLoopContinues(pos, size, zresult) == pos < size

\* readResult = source.read(inSize): a failed read ends the call with an
\* error, an empty one ends the outer loop and the call returns the pair of
\* totals, any other becomes the input of the inner loop.
CopyStream_read ==
    /\ dc_pc = "read"
    /\ \E raised \in BOOLEAN :
        LET chunk == SubSeq(dc_src, dc_rpos + 1,
                            Min(Len(dc_src), dc_rpos + dc_cfg.inSize))
        IN  IF raised
            THEN /\ dc_pc' = "done"
                 /\ dc_res' = [kind |-> "ZstdError", read |-> 0, written |-> 0]
                 /\ UNCHANGED <<dc_rpos, dc_input, dc_pos, dc_totalRead>>
            ELSE IF chunk = <<>>
            THEN /\ dc_pc' = "done"
                 /\ dc_res' = [kind |-> "pair", read |-> dc_totalRead,
                               written |-> dc_totalWrite]
                 /\ UNCHANGED <<dc_rpos, dc_input, dc_pos, dc_totalRead>>
            ELSE /\ dc_pc' = "native"
                 /\ dc_rpos' = dc_rpos + Len(chunk)
                 /\ dc_totalRead' = dc_totalRead + Len(chunk)
                 /\ dc_input' = chunk
                 /\ dc_pos' = 0
                 /\ UNCHANGED dc_res
    /\ UNCHANGED <<dc_cfg, dc_src, dc_dstream, dc_dest, dc_totalWrite>>

\* One turn of the inner loop: the native call, the test of its result, the
\* write() of what it put into the staging buffer, and the loop's test.
CopyStream_decompress ==
    /\ dc_pc = "native"
    /\ LET z == ZSTD_decompressStream(dc_dstream, dc_input, dc_pos, dc_cfg.outSize)
       IN  /\ dc_dstream' = z.dstream
           /\ IF z.isError
              THEN /\ dc_pc' = "done"
                   /\ dc_res' = [kind |-> "ZstdError", read |-> 0, written |-> 0]
                   /\ UNCHANGED <<dc_pos, dc_dest, dc_totalWrite>>
              ELSE /\ dc_pos' = z.pos
                   /\ dc_dest' = dc_dest \o z.out
                   /\ dc_totalWrite' = dc_totalWrite + Len(z.out)
                   /\ dc_pc' = IF CopyLoopContinues(z.pos, Len(dc_input), z.zresult)
                               THEN "native" ELSE "read"
                   /\ UNCHANGED dc_res
    /\ UNCHANGED <<dc_cfg, dc_src, dc_rpos, dc_input, dc_totalRead>>

\* What the sources of copy_stream hold: a frame, whole or cut short at any
\* byte, or two frames.
CopySources ==
    UNION {{Take(ReaderFrame(0, n, flag, level), k) :
               k \in 0..Len(ReaderFrame(0, n, flag, level))} :
               n \in 0..MaxLen, flag \in BOOLEAN, level \in 1..MaxCLevel}
    \cup {ReaderFrame(0, n, FALSE, level) \o ReaderFrame(n, 1, FALSE, level) :
              n \in 0..MaxLen, level \in 1..MaxCLevel}

CopySizes == {1, 2, ZSTD_DStreamInSize}

CopyNext ==
    \/ \E data \in CopySources, inSize \in CopySizes, outSize \in CopySizes :
            ZstdDecompressor_copy_stream(data, inSize, outSize) /\ UNCHANGED exceptCopy
    \/ (CopyStream_read /\ UNCHANGED exceptCopy)
    \/ (CopyStream_decompress /\ UNCHANGED exceptCopy)

\* C23: when copy_stream returns its pair, the source was read to its end,
\* the destination was given every byte the decoder produces from the bytes
\* read, decoded bytes that did not fit the staging buffer when the chunk was
\* used up included, and the pair is (bytes read, bytes written).
C23_CopyStreamWritesAllDecoded ==
    dc_res.kind = "pair"
        => /\ dc_rpos = Len(dc_src)
           /\ dc_dest = ReaderDecoded(dc_src, 0)
           /\ dc_res.read = Len(dc_src)
           /\ dc_res.written = Len(dc_dest)

(***************************************************************************)
(* The ZstdCompressionWriter of zstd.c: __enter__ makes a ZSTD_CStream,    *)
(* write() runs ZSTD_compressStream over the chunk, __exit__ runs          *)
(* ZSTD_endStream and frees the stream.                                    *)
(***************************************************************************)
NullCStream == [null |-> TRUE, cctx |-> NewCCtx(1, FALSE)]

\* What a method returned: ok tells a return from a raise, none whether the
\* value is None; written counts the bytes the call gave the destination.
ZwReturn(op, ok, none, value, written) ==
    zw_last' = [op |-> op, ok |-> ok, none |-> none, value |-> value,
                written |-> written]

ZwInit ==
    /\ zw_life = "none"
    /\ zw_cfg = [level |-> 1, wcs |-> FALSE, outsize |-> 1, sourceSize |-> 0]
    /\ zw_entered = FALSE
    /\ zw_cstream = NullCStream
    /\ zw_dest = <<>>
    /\ zw_fed = 0
    /\ zw_exits = 0
    /\ zw_last = [op |-> "none", ok |-> TRUE, none |-> TRUE, value |-> 0,
                  written |-> 0]

\* ZstdCompressor_write_to of zstd.c
Zw_write_to(level, wcs, outsize, sourceSize) ==
    /\ zw_life = "none"
    /\ zw_life' = "made"
    /\ zw_cfg' = [level |-> level, wcs |-> wcs, outsize |-> outsize,
                  sourceSize |-> sourceSize]
    /\ zw_entered' = FALSE
    /\ zw_cstream' = NullCStream
    /\ UNCHANGED <<zw_dest, zw_fed, zw_exits, zw_last>>

\* ZstdCompressionWriter_enter of zstd.c
Zw_enter ==
    /\ zw_life = "made"
    /\ IF zw_entered
       THEN /\ ZwReturn("enter", FALSE, TRUE, 0, 0)
            /\ UNCHANGED <<zw_entered, zw_cstream>>
       ELSE /\ zw_cstream' = [null |-> FALSE,
                            cctx |-> CStream_from_ZstdCompressor(
                                        zw_cfg.level, zw_cfg.wcs, zw_cfg.sourceSize)]
            /\ zw_entered' = TRUE
            /\ ZwReturn("enter", TRUE, FALSE, 0, 0)
    /\ UNCHANGED <<zw_life, zw_cfg, zw_dest, zw_fed, zw_exits>>

RECURSIVE ZwWriteLoop(_, _, _, _, _)
\* while ((ssize_t)input.pos < sourceSize): ZSTD_compressStream, the test of
\* its result, and the write() of what is in the staging buffer.  The result
\* is [cctx, isError, out]: out is what the destination was given.
ZwWriteLoop(cctx, input, pos, room, out) ==
    IF pos < Len(input)
    THEN LET z == ZSTD_compressStream(cctx, input, pos, room)
         IN  IF z.isError
             THEN [cctx |-> z.cctx, isError |-> TRUE, out |-> out]
             ELSE ZwWriteLoop(z.cctx, input, z.pos, room, out \o z.out)
    ELSE [cctx |-> cctx, isError |-> FALSE, out |-> out]

\* What write() returns when its loop has come through: None.
ZwWriteValue(written) == [none |-> TRUE, value |-> 0]

\* ZstdCompressionWriter_write of zstd.c
Zw_write(n) ==
    /\ zw_life = "made"
    /\ IF ~zw_entered
       THEN /\ ZwReturn("write", FALSE, TRUE, 0, 0)
            /\ UNCHANGED <<zw_cstream, zw_dest, zw_fed>>
       ELSE LET e == ZwWriteLoop(zw_cstream.cctx, StepChunk(zw_fed, n), 0,
                                 zw_cfg.outsize, <<>>)
                v == ZwWriteValue(Len(e.out))
            IN  /\ zw_cstream' = [zw_cstream EXCEPT !.cctx = e.cctx]
                /\ zw_dest' = zw_dest \o e.out
                /\ zw_fed' = zw_fed + n
                /\ IF e.isError
                   THEN ZwReturn("write", FALSE, TRUE, 0, Len(e.out))
                   ELSE ZwReturn("write", TRUE, v.none, v.value, Len(e.out))
    /\ UNCHANGED <<zw_life, zw_cfg, zw_entered, zw_exits>>

RECURSIVE ZwEndLoop(_, _, _)
\* while (1): ZSTD_endStream, the test of its result, the write() of what is
\* in the staging buffer, and the break when the result is 0.
ZwEndLoop(cctx, room, out) ==
    LET z == ZSTD_endStream(cctx, room)
    IN  IF z.isError
        THEN [cctx |-> z.cctx, isError |-> TRUE, out |-> out]
        ELSE IF z.zresult = 0
        THEN [cctx |-> z.cctx, isError |-> FALSE, out |-> out \o z.out]
        ELSE ZwEndLoop(z.cctx, room, out \o z.out)

\* ZstdCompressionWriter_exit of zstd.c
Zw_exit(exception) ==
    /\ zw_life = "made"
    /\ zw_entered' = FALSE
    /\ zw_exits' = zw_exits + 1
    /\ IF ~zw_cstream.null /\ ~exception
       THEN LET e == ZwEndLoop(zw_cstream.cctx, zw_cfg.outsize, <<>>)
            IN  /\ zw_dest' = zw_dest \o e.out
                /\ IF e.isError
                   THEN /\ zw_cstream' = [zw_cstream EXCEPT !.cctx = e.cctx]
                        /\ ZwReturn("exit", FALSE, TRUE, 0, Len(e.out))
                   ELSE /\ zw_cstream' = NullCStream
                        /\ ZwReturn("exit", TRUE, FALSE, 0, Len(e.out))
       ELSE /\ ZwReturn("exit", TRUE, FALSE, 0, 0)
            /\ UNCHANGED <<zw_cstream, zw_dest>>
    /\ UNCHANGED <<zw_life, zw_cfg, zw_fed>>

\* One writer: it is fed chunks that add up to at most MaxLen bytes and
\* exited at most twice; it is entered again only before its second exit.
ZwNext ==
    \/ \E level \in 1..MaxCLevel, wcs \in BOOLEAN, outsize \in OutSizes,
          sourceSize \in {0, MaxLen - 1} :
            Zw_write_to(level, wcs, outsize, sourceSize)
            /\ UNCHANGED exceptZw
    \/ (zw_exits < 2 /\ Zw_enter /\ UNCHANGED exceptZw)
    \/ \E n \in 0..MaxLen :
            /\ zw_fed + n <= MaxLen
            /\ Zw_write(n)
            /\ UNCHANGED exceptZw
    \/ \E exception \in BOOLEAN :
            /\ zw_exits < 2
            /\ Zw_exit(exception)
            /\ UNCHANGED exceptZw

\* C25: a write(chunk) on an entered compression writer that returns, returns
\* the number of compressed bytes the call gave to the destination.
C25_WriteReturnsBytesWritten ==
    (zw_last.op = "write" /\ zw_last.ok)
        => (~zw_last.none /\ zw_last.value = zw_last.written)

(***************************************************************************)
(* The lifetime of a BufferWithSegments and of the views made from it      *)
(* (c-ext/bufferutil.c): item() and segments() give the view a reference   *)
(* to the collection, the dealloc of a view gives it back, and the dealloc *)
(* of the collection, run when its last reference goes, releases the       *)
(* backing memory.                                                         *)
(***************************************************************************)
Views == 1..MaxViews

NoViewObject == [kind |-> "none", stage |-> "none"]

LifeInit ==
    /\ lt_made = FALSE
    /\ lt_parentBuf = FALSE
    /\ lt_user = FALSE
    /\ lt_refcnt = 0
    /\ lt_views = [v \in Views |-> NoViewObject]
    /\ lt_releases = 0

\* BufferWithSegments(data, segments) keeps the Py_buffer of data in
\* self->parent; BufferWithSegments_FromMemory takes over malloc'ed memory.
\* Either way the caller gets the one reference to the new object.
Life_new(parentBuf) ==
    /\ ~lt_made
    /\ lt_made' = TRUE
    /\ lt_parentBuf' = parentBuf
    /\ lt_user' = TRUE
    /\ lt_refcnt' = 1
    /\ UNCHANGED <<lt_views, lt_releases>>

\* result->parent = (PyObject*)self; Py_INCREF(self);
ViewTakesReference_None(refcnt) == refcnt
ViewTakesReference(refcnt) == refcnt + 1

\* BufferWithSegments_item(self, i) with i in range, and
\* BufferWithSegments_segments(self): a new view object with a reference to
\* the collection.
Life_view(v, kind) ==
    /\ lt_made /\ lt_user
    /\ lt_views[v].stage = "none"
    /\ lt_views' = [lt_views EXCEPT ![v] = [kind |-> kind, stage |-> "live"]]
    /\ lt_refcnt' = ViewTakesReference(lt_refcnt)
    /\ UNCHANGED <<lt_made, lt_parentBuf, lt_user, lt_releases>>

\* Py_DECREF of the collection: when the count reaches zero
\* BufferWithSegments_dealloc runs, which releases the backing memory with
\* PyBuffer_Release(&self->parent) or PyMem_Free(self->data), frees the
\* segments and the object.
Life_DECREF ==
    /\ lt_refcnt' = lt_refcnt - 1
    /\ lt_releases' = IF lt_refcnt - 1 = 0 THEN lt_releases + 1 ELSE lt_releases

\* BufferSegment_dealloc and BufferSegments_dealloc: Py_CLEAR(self->parent)
Life_dropView(v) ==
    /\ lt_views[v].stage = "live"
    /\ lt_views' = [lt_views EXCEPT ![v].stage = "dropped"]
    /\ Life_DECREF
    /\ UNCHANGED <<lt_made, lt_parentBuf, lt_user>>

\* The caller lets go of its reference to the collection.
Life_dropCollection ==
    /\ lt_made /\ lt_user
    /\ lt_user' = FALSE
    /\ Life_DECREF
    /\ UNCHANGED <<lt_made, lt_parentBuf, lt_views>>

LifeNext ==
    \/ \E parentBuf \in BOOLEAN : Life_new(parentBuf) /\ UNCHANGED exceptLife
    \/ \E v \in Views, kind \in {"BufferSegment", "BufferSegments"} :
            Life_view(v, kind) /\ UNCHANGED exceptLife
    \/ \E v \in Views : Life_dropView(v) /\ UNCHANGED exceptLife
    \/ (Life_dropCollection /\ UNCHANGED exceptLife)

LiveViews == {v \in Views : lt_views[v].stage = "live"}

\* C27: the backing memory of a BufferWithSegments is released only when the
\* collection and every view made from it have been dropped, it is released
\* then, and it is never released twice.
C27_ReleasedAfterAllDropped ==
    /\ lt_releases <= 1
    /\ lt_releases = 1 => (~lt_user /\ LiveViews = {})
    /\ (lt_made /\ ~lt_user /\ LiveViews = {}) => lt_releases = 1

\* The collection was dropped while views of both kinds were alive, and the
\* memory was released when the last of them went.
C27_Witness ==
    /\ lt_releases = 1
    /\ \E v, w \in Views :
          /\ lt_views[v] = [kind |-> "BufferSegment", stage |-> "dropped"]
          /\ lt_views[w] = [kind |-> "BufferSegments", stage |-> "dropped"]

(***************************************************************************)
(* train_dictionary (zstd.c): the samples are packed into one buffer with  *)
(* an array of their sizes and handed to ZDICT_trainFromBuffer_advanced.   *)
(* An item of the samples list is [bytes, data]: whether it is a bytes     *)
(* object, and its bytes.                                                  *)
(***************************************************************************)
NoHeap == [sampleBuffer |-> "none", sampleSizes |-> "none", dict |-> "none"]

TrainInit ==
    /\ td_samples = <<>>
    /\ td_capacity = 0
    /\ td_heap = NoHeap
    /\ td_buffer = <<>>
    /\ td_sizes = <<>>
    /\ td_calls = 0
    /\ td_result = [kind |-> "none", dictSize |-> 0, reported |-> 0]

RECURSIVE SamplesSize(_, _)
\* samplesSize after the first loop has come to item sampleIndex
SamplesSize(samples, sampleIndex) ==
    IF sampleIndex > Len(samples) THEN 0
    ELSE Len(samples[sampleIndex].data) + SamplesSize(samples, sampleIndex + 1)

\* memcpy(sampleOffset, PyBytes_AS_STRING(sampleItem), sampleSize)
SampleCopy(buffer, sampleOffset, data) ==
    [k \in 1..Len(buffer) |->
        IF k > sampleOffset /\ k <= sampleOffset + Len(data)
        THEN data[k - sampleOffset] ELSE buffer[k]]

\* sampleOffset = (char*)sampleOffset + sampleSize
NextSampleOffset_Stays(sampleOffset, sampleSize) == sampleOffset
NextSampleOffset(sampleOffset, sampleSize) == sampleOffset + sampleSize

RECURSIVE AssembleSamples(_, _, _, _, _)
\* The second loop from item sampleIndex on: [buffer, sizes] at its end.
AssembleSamples(samples, sampleIndex, buffer, sizes, sampleOffset) ==
    IF sampleIndex > Len(samples)
    THEN [buffer |-> buffer, sizes |-> sizes]
    ELSE AssembleSamples(samples, sampleIndex + 1,
                         SampleCopy(buffer, sampleOffset, samples[sampleIndex].data),
                         Append(sizes, Len(samples[sampleIndex].data)),
                         NextSampleOffset(sampleOffset,
                                          Len(samples[sampleIndex].data)))

\* sampleBuffer = malloc(samplesSize): its bytes are not set to anything.
MallocBuffer(size) == [k \in 1..size |-> 0 - 1]

\* free(p)
FreeBuffer_Not(heap, name) == heap
FreeBuffer(heap, name) == [heap EXCEPT ![name] = "freed"]

\* How a call of train_dictionary ends.
TrainReturn(kind, dictSize, reported, heap, calls, buffer, sizes) ==
    /\ td_result' = [kind |-> kind, dictSize |-> dictSize, reported |-> reported]
    /\ td_heap' = heap
    /\ td_calls' = calls
    /\ td_buffer' = buffer
    /\ td_sizes' = sizes

\* pyzstd_train_dictionary(dict_size, samples): fail names the allocation or
\* the native call that fails, if one does, and zresult is what the trainer
\* reports when it does not fail.
pyzstd_train_dictionary(capacity, samples, fail, zresult) ==
    /\ td_samples' = samples
    /\ td_capacity' = capacity
    /\ LET sb    == [NoHeap EXCEPT !.sampleBuffer = "live"]
           ss    == [sb EXCEPT !.sampleSizes = "live"]
           all   == [ss EXCEPT !.dict = "live"]
           a     == AssembleSamples(samples, 1,
                                    MallocBuffer(SamplesSize(samples, 1)), <<>>, 0)
       IN  IF \E i \in 1..Len(samples) : ~samples[i].bytes
           THEN TrainReturn("ValueError", 0, 0, NoHeap, 0, <<>>, <<>>)
           ELSE IF fail = "sampleBuffer"
           THEN TrainReturn("MemoryError", 0, 0, NoHeap, 0, <<>>, <<>>)
           ELSE IF fail = "sampleSizes"
           THEN TrainReturn("MemoryError", 0, 0, FreeBuffer(sb, "sampleBuffer"),
                            0, <<>>, <<>>)
           ELSE IF fail = "dict"
           THEN TrainReturn("MemoryError", 0, 0,
                            FreeBuffer(FreeBuffer(ss, "sampleSizes"), "sampleBuffer"),
                            0, <<>>, <<>>)
           ELSE IF fail = "trainer"
           THEN TrainReturn("ZstdError", 0, 0,
                            FreeBuffer(FreeBuffer(FreeBuffer(all, "dict"),
                                                  "sampleSizes"), "sampleBuffer"),
                            1, a.buffer, a.sizes)
           ELSE IF fail = "result"
           THEN TrainReturn("MemoryError", 0, zresult, all, 1, a.buffer, a.sizes)
           ELSE TrainReturn("dict", zresult, zresult,
                            [all EXCEPT !.dict = "owned"], 1, a.buffer, a.sizes)

\* The byte strings of at most n bytes.
SampleBlobs(n) == UNION {[1..k -> 0..MaxByte] : k \in 0..n}

\* The items of a samples list: the byte strings of at most MaxCount bytes,
\* and an object that is not bytes.
SampleItems ==
    {[bytes |-> TRUE, data |-> d] : d \in SampleBlobs(MaxCount)}
    \cup {[bytes |-> FALSE, data |-> <<>>]}

\* ZDICT_trainFromBuffer_advanced fails, or reports how many bytes of the
\* dictionary buffer it has filled: at most dictBufferCapacity.  One call is
\* followed: the function keeps nothing from one call to the next.
TrainNext ==
    \E capacity \in 0..MaxCount, n \in 0..MaxSegments :
      td_result.kind = "none" /\
      \E samples \in [1..n -> SampleItems],
         fail \in {"none", "sampleBuffer", "sampleSizes", "dict", "trainer", "result"},
         zresult \in 0..capacity :
            /\ pyzstd_train_dictionary(capacity, samples, fail, zresult)
            /\ UNCHANGED exceptTrain

RECURSIVE ConcatSamples(_, _)
\* The blobs of the samples from item i on, one after the other.
ConcatSamples(samples, i) ==
    IF i > Len(samples) THEN <<>>
    ELSE samples[i].data \o ConcatSamples(samples, i + 1)

RECURSIVE SumOfSizes(_, _)
SumOfSizes(sizes, i) ==
    IF i > Len(sizes) THEN 0 ELSE sizes[i] + SumOfSizes(sizes, i + 1)

\* C28: when train_dictionary returns a dictionary, the buffer the trainer
\* was given is the samples' blobs one after the other in list order, the
\* size array has the length of each, in order, so that the sizes add up to
\* the length of the buffer, the trainer was called once, and the
\* dictionary's size is what the trainer reported, at most the capacity.
C28_TrainPacksSamples ==
    td_result.kind = "dict"
        => /\ td_buffer = ConcatSamples(td_samples, 1)
           /\ Len(td_sizes) = Len(td_samples)
           /\ \A i \in 1..Len(td_samples) : td_sizes[i] = Len(td_samples[i].data)
           /\ SumOfSizes(td_sizes, 1) = Len(td_buffer)
           /\ td_calls = 1
           /\ td_result.dictSize = td_result.reported
           /\ td_result.dictSize <= td_capacity

\* A dictionary trained from two samples that are not empty and differ.
C28_Witness ==
    /\ td_result.kind = "dict"
    /\ td_result.dictSize > 0
    /\ Len(td_samples) >= 2
    /\ td_samples[1].data # <<>>
    /\ td_samples[2].data # <<>>
    /\ td_samples[1].data # td_samples[2].data

\* C29: when train_dictionary fails because a sample is not bytes
\* (ValueError) or because the trainer fails (ZstdError), every buffer it had
\* allocated is freed when it returns, and it returns no dictionary.
C29_TrainFailureFreesBuffers ==
    td_result.kind \in {"ValueError", "ZstdError"}
        => /\ \A name \in DOMAIN td_heap : td_heap[name] \in {"none", "freed"}
           /\ td_result.dictSize = 0
           /\ td_result.kind = "ZstdError"
                => (td_calls = 1 /\ \A name \in DOMAIN td_heap : td_heap[name] = "freed")
           /\ td_result.kind = "ValueError" => (td_calls = 0 /\ td_heap = NoHeap)

\* The trainer has failed on two samples and the three buffers are freed.
C29_Witness ==
    /\ td_result.kind = "ZstdError"
    /\ td_calls = 1
    /\ Len(td_samples) = 2
    /\ td_buffer # <<>>
    /\ td_heap.dict = "freed"

\* C40: whenever train_dictionary has returned, with a dictionary or with
\* any error, the sample buffer and the size array are released and the
\* dictionary buffer is owned by the returned dictionary or released.
C40_TrainLeavesNoBuffer ==
    td_result.kind # "none"
        => /\ td_heap.sampleBuffer \in {"none", "freed"}
           /\ td_heap.sampleSizes \in {"none", "freed"}
           /\ td_heap.dict \in {"none", "freed", "owned"}
           /\ td_heap.dict = "owned" <=> td_result.kind = "dict"

(***************************************************************************)
(* The digested dictionary of a context: ZstdCompressor.cdict (zstd.c) and *)
(* ZstdDecompressor.ddict (c-ext/decompressor.c).  A handle is the ordinal *)
(* of the native create call that returned it.                             *)
(***************************************************************************)
\* One-shot calls on one context.
MaxCalls == 3

NoDictCall == [op |-> "none", fail |-> "none", used |-> 0]

DictInit ==
    /\ dk_kind = "none"
    /\ dk_life = "none"
    /\ dk_dict = FALSE
    /\ dk_digest = 0
    /\ dk_made = 0
    /\ dk_freed = <<>>
    /\ dk_calls = 0
    /\ dk_last = NoDictCall

\* ZstdCompressor_init / ZstdDecompressor_init: dict kept, cdict / ddict NULL.
DictContext_init(kind, dict) ==
    /\ dk_kind = "none"
    /\ dk_kind' = kind
    /\ dk_life' = "live"
    /\ dk_dict' = dict
    /\ dk_digest' = 0
    /\ UNCHANGED <<dk_made, dk_freed, dk_calls, dk_last>>
    /\ UNCHANGED exceptDict

\* if (dictData && !self->cdict)
NeedsDigest_Always(dictData, digest) == dictData

NeedsDigest(dictData, digest) == dictData /\ digest = 0

\* The stages of a one-shot call, in the order the code reaches them; a call
\* fails at one of them or at none.
CompressStages == <<"output", "cctx", "digest", "native">>
DecompressStages == <<"dctx", "digest", "size", "result", "native">>

StageIndex(stages, stage) ==
    IF \E i \in 1..Len(stages) : stages[i] = stage
    THEN CHOOSE i \in 1..Len(stages) : stages[i] = stage
    ELSE Len(stages) + 1

\* Whether a call that fails at `fail` gets as far as `stage`.
Reaches(stages, fail, stage) == StageIndex(stages, fail) >= StageIndex(stages, stage)
Passes(stages, fail, stage) == StageIndex(stages, fail) > StageIndex(stages, stage)

\* The dictionary part common to both one-shot calls: the digested form is
\* created when there is dictionary data and no digested form yet, and the
\* native call is handed whatever the field then holds.
DictCall(op, stages, fail) ==
    LET creates == Reaches(stages, fail, "digest") /\ NeedsDigest(dk_dict, dk_digest)
        created == creates /\ fail # "digest"
        digest  == IF created THEN dk_made + 1 ELSE dk_digest
    IN  /\ dk_life = "live"
        /\ dk_calls < MaxCalls
        /\ fail = "digest" => creates
        /\ dk_digest' = digest
        /\ dk_made' = IF created THEN dk_made + 1 ELSE dk_made
        /\ dk_calls' = dk_calls + 1
        /\ dk_last' = [op |-> op, fail |-> fail,
                       used |-> IF Reaches(stages, fail, "native") THEN digest ELSE 0]
        /\ UNCHANGED <<dk_kind, dk_life, dk_dict, dk_freed>>
        /\ UNCHANGED exceptDict

\* ZstdCompressor.compress(data) of zstd.c.
DictContext_compress(fail) ==
    /\ dk_kind = "compressor"
    /\ DictCall("compress", CompressStages, fail)

\* ZstdDecompressor.decompress(data).
DictContext_decompress(fail) ==
    /\ dk_kind = "decompressor"
    /\ DictCall("decompress", DecompressStages, fail)

\* ZstdCompressor_dealloc / ZstdDecompressor_dealloc.
DictContext_dealloc ==
    /\ dk_life = "live"
    /\ dk_life' = "dead"
    /\ dk_freed' = IF dk_digest # 0 THEN Append(dk_freed, dk_digest) ELSE dk_freed
    /\ dk_digest' = 0
    /\ UNCHANGED <<dk_kind, dk_dict, dk_made, dk_calls, dk_last>>
    /\ UNCHANGED exceptDict

DictNext ==
    \/ \E kind \in {"compressor", "decompressor"}, dict \in BOOLEAN : DictContext_init(kind, dict)
    \/ \E fail \in {"none", "output", "cctx", "digest", "native"} : DictContext_compress(fail)
    \/ \E fail \in {"none", "dctx", "digest", "size", "result", "native"} : DictContext_decompress(fail)
    \/ DictContext_dealloc

\* C32: on a context that has a dictionary, the digested form is created by
\* the first call that gets to need it, no second one is ever created, every
\* later call is handed the same one, and destroying the context releases it
\* exactly once.
C32_DigestCreatedOnceReleasedOnce ==
    [][/\ dk_made' <= 1
       /\ (dk_digest # 0 /\ dk_life' = "live") => dk_digest' = dk_digest
       /\ (dk_calls' = dk_calls + 1 /\ dk_dict) =>
             LET stages == IF dk_last'.op = "compress" THEN CompressStages ELSE DecompressStages
             IN  /\ (dk_digest = 0 /\ Passes(stages, dk_last'.fail, "digest"))
                        => (dk_digest' # 0 /\ dk_made' = dk_made + 1)
                 /\ dk_digest # 0 => dk_made' = dk_made
                 /\ Reaches(stages, dk_last'.fail, "native")
                        => (dk_last'.used = dk_digest' /\ dk_digest' # 0)
       /\ dk_life' = "live" => dk_freed' = <<>>
       /\ (dk_life = "live" /\ dk_life' = "dead") =>
             dk_freed' = (IF dk_made = 1 THEN <<dk_digest>> ELSE <<>>)
       /\ dk_life = "dead" => dk_freed' = dk_freed
      ]_vars

C32_Witness ==
    /\ dk_kind = "decompressor"
    /\ dk_dict
    /\ dk_life = "dead"
    /\ dk_calls = MaxCalls
    /\ dk_made = 1
    /\ dk_freed = <<1>>
    /\ dk_last.used = 1

(***************************************************************************)
(* ZstdCompressionReader (c-ext/compressionreader.c), with the bytes: the  *)
(* session is entered, read() runs from one native call to the next.  The  *)
(* native engine takes any part of the input it is shown in one call (with *)
(* worker threads the call copies what fits into the next job and returns  *)
(* without waiting).                                                       *)
(***************************************************************************)
NoCRead == [kind |-> "none", bytes |-> <<>>]

CReaderInit ==
    /\ cr_pc = "none"
    /\ cr_mode = "buffer"
    /\ cr_src = <<>>
    /\ cr_rpos = 0
    /\ cr_readSize = 1
    /\ cr_cctx = NewCCtx(1, FALSE)
    /\ cr_input = <<>>
    /\ cr_pos = 0
    /\ cr_finishedInput = FALSE
    /\ cr_finishedOutput = FALSE
    /\ cr_room = 0
    /\ cr_out = <<>>
    /\ cr_fed = <<>>
    /\ cr_last = NoCRead

\* compressor.stream_reader(source, read_size) followed by __enter__: the
\* object starts zeroed, the source size is not pledged.
CReader_stream_reader(mode, level, data, readSize) ==
    /\ cr_pc = "none"
    /\ cr_pc' = "idle"
    /\ cr_mode' = mode
    /\ cr_src' = data
    /\ cr_readSize' = readSize
    /\ cr_cctx' = ZSTD_CCtx_setPledgedSrcSize(NewCCtx(level, FALSE), 0).cctx
    /\ UNCHANGED <<cr_rpos, cr_input, cr_pos, cr_finishedInput, cr_finishedOutput,
                   cr_room, cr_out, cr_fed, cr_last>>
    /\ UNCHANGED exceptCReader

\* read(size) returns: the output buffer is forgotten.
CReaderReturn(kind, bytes) ==
    /\ cr_pc' = "idle"
    /\ cr_room' = 0
    /\ cr_out' = <<>>
    /\ cr_last' = [kind |-> kind, bytes |-> bytes]

\* read(size) up to the readinput label.
CReader_read(size) ==
    /\ cr_pc = "idle"
    /\ IF cr_finishedOutput
       THEN CReaderReturn("bytes", <<>>)
       ELSE IF size < 1
       THEN CReaderReturn("ValueError", <<>>)
       ELSE /\ cr_pc' = "readinput"
            /\ cr_room' = size
            /\ cr_out' = <<>>
            /\ cr_last' = cr_last
    /\ UNCHANGED <<cr_mode, cr_src, cr_rpos, cr_readSize, cr_cctx, cr_input, cr_pos,
                   cr_finishedInput, cr_finishedOutput, cr_fed>>
    /\ UNCHANGED exceptCReader

\* readinput: with data left over, one native call with ZSTD_e_continue that
\* takes `take` of the bytes it is shown.
CReader_readinput(take) ==
    /\ cr_pc = "readinput"
    /\ cr_pos < Len(cr_input)
    /\ Len(cr_fed) <= MaxLen
    /\ take \in 1..(Len(cr_input) - cr_pos)
    /\ LET r == ZSTD_compress_generic(cr_cctx, Take(cr_input, cr_pos + take), cr_pos,
                                      cr_room - Len(cr_out), "continue")
           out == cr_out \o r.out
           exhausted == r.pos = Len(cr_input)
       IN  /\ cr_cctx' = r.cctx
           /\ cr_fed' = cr_fed \o SubSeq(cr_input, cr_pos + 1, r.pos)
           /\ cr_input' = IF exhausted THEN <<>> ELSE cr_input
           /\ cr_pos' = IF exhausted THEN 0 ELSE r.pos
           /\ cr_finishedInput' = (cr_finishedInput \/ (exhausted /\ cr_mode = "buffer"))
           /\ IF r.isError
              THEN CReaderReturn("ZstdError", <<>>)
              ELSE IF out # <<>> /\ Len(out) = cr_room
              THEN CReaderReturn("bytes", out)
              ELSE /\ cr_pc' = "pull"
                   /\ cr_out' = out
                   /\ UNCHANGED <<cr_room, cr_last>>
    /\ UNCHANGED <<cr_mode, cr_src, cr_rpos, cr_readSize, cr_finishedOutput>>
    /\ UNCHANGED exceptCReader

\* if (!self->finishedInput): the input installed by the pull of n bytes
\* from a reader (none at end of file), or by the fixed buffer.
CReaderPulled(n) ==
    IF cr_finishedInput THEN [input |-> cr_input, pos |-> cr_pos, finished |-> TRUE]
    ELSE IF cr_mode = "reader"
    THEN IF n = 0
         THEN [input |-> cr_input, pos |-> cr_pos, finished |-> TRUE]
         ELSE [input |-> SubSeq(cr_src, cr_rpos + 1, cr_rpos + n), pos |-> 0,
               finished |-> FALSE]
    ELSE [input |-> cr_src, pos |-> 0, finished |-> FALSE]

\* The rest of read(): gather more input and go back to readinput, or end
\* the stream when there is no input.
CReader_pull(n, raised) ==
    /\ cr_pc = "pull" \/ (cr_pc = "readinput" /\ cr_pos >= Len(cr_input))
    /\ LET reads == ~cr_finishedInput /\ cr_mode = "reader"
           p == CReaderPulled(n)
       IN  /\ n = (IF reads THEN Min(cr_readSize, Len(cr_src) - cr_rpos) ELSE 0)
           /\ raised => reads
           /\ IF raised
              THEN /\ CReaderReturn("error", <<>>)
                   /\ UNCHANGED <<cr_rpos, cr_cctx, cr_input, cr_pos, cr_finishedInput,
                                  cr_finishedOutput>>
              ELSE /\ cr_rpos' = cr_rpos + n
                   /\ cr_input' = p.input
                   /\ cr_pos' = p.pos
                   /\ cr_finishedInput' = p.finished
                   /\ IF p.input # <<>>
                      THEN /\ cr_pc' = "readinput"
                           /\ UNCHANGED <<cr_cctx, cr_finishedOutput, cr_room, cr_out, cr_last>>
                      ELSE LET r == ZSTD_compress_generic(cr_cctx, <<>>, 0,
                                                          cr_room - Len(cr_out), "end")
                           IN  /\ cr_cctx' = r.cctx
                               /\ IF r.isError
                                  THEN /\ CReaderReturn("ZstdError", <<>>)
                                       /\ UNCHANGED cr_finishedOutput
                                  ELSE /\ cr_finishedOutput' = (r.zresult = 0)
                                       /\ CReaderReturn("bytes", cr_out \o r.out)
    /\ UNCHANGED <<cr_mode, cr_src, cr_readSize, cr_fed>>
    /\ UNCHANGED exceptCReader

CReaderNext ==
    \/ \E mode \in {"reader", "buffer"}, level \in 1..MaxCLevel, data \in ByteStrings,
          readSize \in 1..MaxLen :
           CReader_stream_reader(mode, level, data, readSize)
    \/ \E size \in 0..MaxLen : CReader_read(size)
    \/ \E take \in 1..MaxLen : CReader_readinput(take)
    \/ \E n \in 0..MaxLen, raised \in BOOLEAN : CReader_pull(n, raised)

\* C33: what the native engine has consumed is, at every moment, the bytes
\* of the source in order, each once; when the stream has ended it is the
\* whole source.
C33_SourceFedOnceInOrder ==
    /\ Len(cr_fed) <= Len(cr_src)
    /\ cr_fed = Take(cr_src, Len(cr_fed))
    /\ cr_finishedOutput => cr_fed = cr_src

(***************************************************************************)
(* ZstdDecompressionWriter.write of zstd.c, one native call at a time.     *)
(* What a call of ZSTD_decompressStream does is left open: it consumes     *)
(* some of the input, produces some output and returns an error or a hint, *)
(* and given unconsumed input it consumes a byte or produces output.       *)
(***************************************************************************)
DWriterInit ==
    /\ dw_pc = "none"
    /\ dw_size = 0
    /\ dw_pos = 0
    /\ dw_zresult = [isError |-> FALSE, value |-> 0]
    /\ dw_calls = 0
    /\ dw_dest = 0
    /\ dw_last = "none"

\* decompressor.write_to(writer) and __enter__
Dw_enter ==
    /\ dw_pc = "none"
    /\ dw_pc' = "idle"
    /\ UNCHANGED <<dw_size, dw_pos, dw_zresult, dw_calls, dw_dest, dw_last>>
    /\ UNCHANGED exceptDWriter

\* while ((ssize_t)input.pos < sourceSize || zresult == 1)
DwLoopContinues(pos, sourceSize, zresult) == pos < sourceSize \/ zresult = 1

\* write(data) with n bytes, up to the head of its loop
Dw_write(n) ==
    /\ dw_pc = "idle"
    /\ dw_size' = n
    /\ dw_pos' = 0
    /\ dw_zresult' = [isError |-> FALSE, value |-> 0]
    /\ dw_calls' = 0
    /\ IF DwLoopContinues(0, n, 0)
       THEN dw_pc' = "feed" /\ dw_last' = dw_last
       ELSE dw_pc' = "idle" /\ dw_last' = "None"
    /\ UNCHANGED dw_dest
    /\ UNCHANGED exceptDWriter

\* One turn of the loop: the native call consumes `consumed` bytes, puts
\* `produced` bytes into the output buffer and returns z; the output goes to
\* the writer.
Dw_decompressStream(consumed, produced, z) ==
    /\ dw_pc = "feed"
    /\ dw_calls < MaxCalls
    /\ consumed <= dw_size - dw_pos
    /\ dw_pos < dw_size => (consumed >= 1 \/ produced >= 1)
    /\ dw_zresult' = z
    /\ dw_calls' = dw_calls + 1
    /\ dw_pos' = dw_pos + consumed
    /\ IF z.isError
       THEN /\ dw_pc' = "idle"
            /\ dw_last' = "ZstdError"
            /\ UNCHANGED dw_dest
       ELSE /\ dw_dest' = Min(dw_dest + produced, MaxLen)
            /\ IF DwLoopContinues(dw_pos + consumed, dw_size, z.value)
               THEN dw_pc' = "feed" /\ dw_last' = dw_last
               ELSE dw_pc' = "idle" /\ dw_last' = "None"
    /\ UNCHANGED dw_size
    /\ UNCHANGED exceptDWriter

\* What a native call may return: an error, or 0 (frame complete), 1, or a
\* larger hint.
DecoderResults ==
    {[isError |-> TRUE, value |-> 0]} \cup {[isError |-> FALSE, value |-> v] : v \in 0..2}

DWriterNext ==
    \/ Dw_enter
    \/ \E n \in 0..MaxLen : Dw_write(n)
    \/ \E consumed \in 0..MaxLen, produced \in 0..1, z \in DecoderResults :
           Dw_decompressStream(consumed, produced, z)

\* C36: the feed loop of write(chunk) goes round again only while there is
\* unconsumed input: once the chunk is consumed it ends, whatever the decoder
\* returned, and so makes no native call with empty input.
C36_FeedLoopEndsWithChunk ==
    dw_pc = "feed" => dw_pos < dw_size

(***************************************************************************)
(* The input staging buffer of ZstdDecompressorIterator (zstd.c), by       *)
(* sizes: the reader returns as many bytes as it likes, the decoder        *)
(* consumes some of what the buffer holds.                                 *)
(***************************************************************************)
StageInit ==
    /\ sb_pc = "none"
    /\ sb_capacity = 0
    /\ sb_size = 0
    /\ sb_pos = 0
    /\ sb_readCount = FALSE
    /\ sb_finishedInput = FALSE
    /\ sb_finishedOutput = FALSE
    /\ sb_last = "none"

\* read_from(reader) of a decompressor whose insize is given:
\* input.src = malloc(self->insize)
Stage_read_from(insize) ==
    /\ sb_pc = "none"
    /\ sb_pc' = "idle"
    /\ sb_capacity' = insize
    /\ UNCHANGED <<sb_size, sb_pos, sb_readCount, sb_finishedInput, sb_finishedOutput,
                   sb_last>>
    /\ UNCHANGED exceptStage

\* next() returns.
StageReturn(result) == sb_pc' = "idle" /\ sb_last' = result

\* read_decompressor_iterator: the call consumes `consumed` bytes and returns
\* z (an error, 0 for a finished frame, or a hint above 0); after it either
\* next() returns or goes to the label `onward`.
StageDecode(consumed, z, hasChunk, onward) ==
    /\ consumed <= sb_size - sb_pos
    /\ sb_pos' = sb_pos + consumed
    /\ UNCHANGED <<sb_capacity, sb_size>>
    /\ IF z.isError
       THEN /\ StageReturn("error")
            /\ UNCHANGED <<sb_readCount, sb_finishedInput, sb_finishedOutput>>
       ELSE /\ sb_readCount' = (sb_readCount \/ consumed > 0)
            /\ sb_finishedInput' = (sb_finishedInput \/ z.value = 0)
            /\ sb_finishedOutput' = (sb_finishedOutput \/ z.value = 0)
            /\ IF hasChunk THEN StageReturn("chunk")
               ELSE IF onward = "source" \/ ~sb_finishedInput'
               THEN sb_pc' = "source" /\ sb_last' = sb_last
               ELSE StageReturn("stop")

\* next() up to read_from_source
Stage_iternext(consumed, z, hasChunk) ==
    /\ sb_pc = "idle"
    /\ IF sb_finishedOutput
       THEN /\ StageReturn("stop")
            /\ UNCHANGED <<sb_capacity, sb_size, sb_pos, sb_readCount, sb_finishedInput,
                           sb_finishedOutput>>
       ELSE IF sb_pos < sb_size
       THEN StageDecode(consumed, z, hasChunk, "source")
       ELSE /\ sb_pc' = "source"
            /\ UNCHANGED <<sb_capacity, sb_size, sb_pos, sb_readCount, sb_finishedInput,
                           sb_finishedOutput, sb_last>>
    /\ UNCHANGED exceptStage

\* memcpy((void*)self->input.src, readBuffer, readSize): whether the copy
\* stays inside the allocation
CopyFits(readSize, capacity) == readSize <= capacity

\* read_from_source: the reader's read(insize) returns readSize bytes, or
\* raises.  A copy that runs past the allocation is undefined: the process
\* dies of it or goes on with the bytes it copied.
Stage_read_from_source(readSize, raised, dies) ==
    /\ sb_pc = "source"
    /\ raised => ~sb_finishedInput
    /\ dies => (~raised /\ ~sb_finishedInput /\ ~CopyFits(readSize, sb_capacity))
    /\ IF sb_finishedInput
       THEN /\ sb_pc' = "decode"
            /\ UNCHANGED <<sb_size, sb_pos, sb_finishedInput, sb_finishedOutput, sb_last>>
       ELSE IF raised
       THEN /\ StageReturn("error")
            /\ UNCHANGED <<sb_size, sb_pos, sb_finishedInput, sb_finishedOutput>>
       ELSE IF dies
       THEN /\ sb_pc' = "crashed"
            /\ UNCHANGED <<sb_size, sb_pos, sb_finishedInput, sb_finishedOutput, sb_last>>
       ELSE IF readSize > 0
       THEN /\ sb_size' = readSize
            /\ sb_pos' = 0
            /\ sb_pc' = "decode"
            /\ UNCHANGED <<sb_finishedInput, sb_finishedOutput, sb_last>>
       ELSE IF ~sb_readCount
       THEN /\ sb_finishedInput' = TRUE
            /\ sb_finishedOutput' = TRUE
            /\ StageReturn("stop")
            /\ UNCHANGED <<sb_size, sb_pos>>
       ELSE /\ sb_finishedInput' = TRUE
            /\ sb_pc' = "decode"
            /\ UNCHANGED <<sb_size, sb_pos, sb_finishedOutput, sb_last>>
    /\ UNCHANGED <<sb_capacity, sb_readCount>>
    /\ UNCHANGED exceptStage

\* The call of read_decompressor_iterator after read_from_source
Stage_decode(consumed, z, hasChunk) ==
    /\ sb_pc = "decode"
    /\ StageDecode(consumed, z, hasChunk, "decode")
    /\ UNCHANGED exceptStage

\* What the reader may return: up to one byte more than the largest request.
StageReadSizes == 0..(MaxLen + 1)

StageNext ==
    \/ \E insize \in 1..MaxLen : Stage_read_from(insize)
    \/ \E consumed \in 0..(MaxLen + 1), z \in DecoderResults, hasChunk \in BOOLEAN :
           Stage_iternext(consumed, z, hasChunk)
    \/ \E readSize \in StageReadSizes, raised \in BOOLEAN, dies \in BOOLEAN :
           Stage_read_from_source(readSize, raised, dies)
    \/ \E consumed \in 0..(MaxLen + 1), z \in DecoderResults, hasChunk \in BOOLEAN :
           Stage_decode(consumed, z, hasChunk)

\* C37: the staging buffer never holds more bytes than it was allocated
\* with, whatever the reader returns.
C37_StagedWithinCapacity ==
    sb_size <= sb_capacity

(***************************************************************************)
(* The specifications.                                                     *)
(***************************************************************************)
Init == CodecInit /\ SegInit /\ BufInit /\ WriterInit /\ SessionInit /\ StepInit /\ CIterInit /\ DIterInit /\ ReaderInit /\ CopyInit /\ ZwInit /\ LifeInit /\ TrainInit /\ DictInit /\ CReaderInit /\ DWriterInit /\ StageInit

CodecSpec == Init /\ [][CodecNext]_vars

SegSpec == Init /\ [][SegNext]_vars

BufSpec == Init /\ [][BufNext]_vars

WriterSpec == Init /\ [][WriterNext]_vars

SessionSpec == Init /\ [][SessionNext]_vars

StepSpec == Init /\ [][StepNext]_vars

CIterSpec == Init /\ [][CIterNext]_vars

IterSpec == Init /\ [][IterNext]_vars

ReaderSpec == Init /\ [][ReaderNext]_vars

CopySpec == Init /\ [][CopyNext]_vars

ZwSpec == Init /\ [][ZwNext]_vars

LifeSpec == Init /\ [][LifeNext]_vars

TrainSpec == Init /\ [][TrainNext]_vars

DictSpec == Init /\ [][DictNext]_vars

CReaderSpec == Init /\ [][CReaderNext]_vars

DWriterSpec == Init /\ [][DWriterNext]_vars

StageSpec == Init /\ [][StageNext]_vars

\* A method that has begun runs on: the loops of write, flush and __exit__
\* wait for nothing but their own native call and their own write().
StepFairSpec == StepSpec /\ WF_wl_pc(StepRuns)

=============================================================================
